---- MODULE Spec2Model ----
(***************************************************************************)
(* A model of the kilometers CLI (km): the filter pipeline that reviews    *)
(* the launch command (src/filters/mod.rs), the monitor handler that runs  *)
(* it (src/handlers.rs) and the stdio relay (src/proxy.rs and              *)
(* src/infrastructure/process_manager.rs).                                 *)
(***************************************************************************)
EXTENDS Integers, Sequences, FiniteSets, TLC

(***************************************************************************)
(* Bounds of the model.                                                    *)
(***************************************************************************)
MaxFilters == 3

\* The lines the two streams of the relay deliver in total.
MaxLines == 3

\* The largest batch_size an EventSender is run with.
MaxBatchSize == 3

\* The calls of the EventSender one relay direction makes.
MaxCalls == 2

\* The calls of get_jwt_token_with_cache.
MaxSessions == 2

\* The seconds that pass.
MaxTicks == 2

\* The calls of clear made in a row on one token store.
MaxClears == 2

NoValue == "none"

\* Option<T>.
None == [some |-> FALSE]

Some(v) == [some |-> TRUE, value |-> v]

\* Result<T, E>; Running stands for a call that has not returned yet.
Running == [done |-> FALSE]

Ok(v) == [done |-> TRUE, ok |-> TRUE, value |-> v]

Err(e) == [done |-> TRUE, ok |-> FALSE, error |-> e]

IsOk(r) == r.done /\ r.ok

IsErr(r) == r.done /\ ~r.ok

(***************************************************************************)
(* ProxyRequest { command, args, metadata }.  Metadata maps are modelled   *)
(* as sets of <<key, value>> pairs.                                        *)
(***************************************************************************)
Commands == {"npx", "safe-npx"}

ArgLists == {<< >>, <<"--transformed">>}

MetadataMaps == {{}, {<<"risk", "reviewed">>}}

ProxyRequest == [command : Commands, args : ArgLists, metadata : MetadataMaps]

\* ProxyRequest::new(command, args): the metadata map starts empty.
NewProxyRequest(command, args) ==
    [command |-> command, args |-> args, metadata |-> {}]

(***************************************************************************)
(* FilterDecision, and Result<FilterDecision>: what one call of check      *)
(* returns.                                                                *)
(***************************************************************************)
Allow == [kind |-> "Allow"]

Block(reason) == [kind |-> "Block", reason |-> reason]

Transform(new_request) == [kind |-> "Transform", new_request |-> new_request]

CheckErr(e) == [kind |-> "Err", error |-> e]

\* A call of check that never returns.
Pending == [kind |-> "Pending"]

(***************************************************************************)
(* The endpoints and the HTTP client.  An endpoint cannot be reached, or   *)
(* never answers, or answers with a status and a body.  A client is its    *)
(* timeout (none unless the builder sets one).  Send is                    *)
(* client.post(..).send().await: "returns" tells whether the await ever    *)
(* completes.                                                              *)
(***************************************************************************)
Unreachable == [kind |-> "unreachable"]

NoAnswer == [kind |-> "noAnswer"]

Status(code, body) == [kind |-> "status", status |-> code, body |-> body]

\* A body that does not parse as the JSON the caller expects.
Unparsable == [unparsable |-> TRUE]

\* reqwest::Client::new(): no timeout is set.
ClientNew == [timeout |-> None]

Returned(result) == [returns |-> TRUE, result |-> result]

NeverReturns == [returns |-> FALSE]

Send(client, endpoint) ==
    CASE endpoint.kind = "unreachable" -> Returned(Err("error sending request"))
      [] endpoint.kind = "noAnswer" ->
            IF client.timeout.some
            THEN Returned(Err("operation timed out"))
            ELSE NeverReturns
      [] endpoint.kind = "status" -> Returned(Ok(endpoint))

\* response.status().is_success().
IsSuccess(status) == status >= 200 /\ status =< 299

(***************************************************************************)
(* LocalLoggerFilter (src/filters/local_logger.rs).  The backend of the    *)
(* filter is what becomes of its append to the log file.                   *)
(***************************************************************************)
LogOutcomes == {[kind |-> "written"], [kind |-> "openFails"], [kind |-> "writeFails"]}

\* --log-file of km monitor, the path handle_monitor hands to the relay: the
\* default, a file name without a directory.
LogFile == [parent |-> "", file_name |-> "mcp_traffic.jsonl"]

\* log_file.parent().unwrap_or(".").join("km_commands.log")
MetadataLog(log_file) == [parent |-> log_file.parent, file_name |-> "km_commands.log"]

\* LocalLoggerFilter::new(log_path).
LocalLoggerFilter(log_path, backend) ==
    [name |-> "LocalLogger", is_blocking |-> "false", behaviour |-> "log_request",
     log_path |-> log_path, backend |-> backend]

\* The LogEntry log_request serializes (the timestamp is left out); check
\* passes "free" as the tier.
CommandLogEntry(request, user_tier) ==
    [command |-> request.command, args |-> request.args, user_tier |-> user_tier,
     metadata |-> request.metadata]

\* What a call of check appends to the two log files: a LocalLoggerFilter
\* whose write goes through appends one line to the file at its log_path.
AppendLogRequest(filter, request, traffic, commands) ==
    IF filter.behaviour = "log_request" /\ filter.backend.kind = "written"
    THEN IF filter.log_path = LogFile
         THEN [traffic |-> Append(traffic, CommandLogEntry(request, "free")),
               commands |-> commands]
         ELSE [traffic |-> traffic,
               commands |-> Append(commands, CommandLogEntry(request, "free"))]
    ELSE [traffic |-> traffic, commands |-> commands]

\* LocalLoggerFilter::log_request.
LogRequest(backend) ==
    CASE backend.kind = "written"    -> Ok("unit")
      [] backend.kind = "openFails"  -> Err("Failed to open log file")
      [] backend.kind = "writeFails" -> Err("Failed to write log entry")

\* A logger that returns the error of its write.
LocalLoggerCheckPropagatesError(filter, request) ==
    LET logged == LogRequest(filter.backend)
    IN  IF IsOk(logged) THEN Allow ELSE CheckErr(logged.error)

\* LocalLoggerFilter::check: both arms of the match only log.
LocalLoggerCheck(filter, request) ==
    LET logged == LogRequest(filter.backend)
    IN  IF IsOk(logged) THEN Allow ELSE Allow

(***************************************************************************)
(* EventSenderFilter (src/filters/event_sender.rs).  The backend is the    *)
(* telemetry endpoint.                                                     *)
(***************************************************************************)
TelemetryEndpoints ==
    {Unreachable, NoAnswer, Status(200, Unparsable), Status(429, Unparsable),
     Status(500, Unparsable)}

\* EventSenderFilter::new.
EventSenderFilter(backend) ==
    [name |-> "EventSender", is_blocking |-> "false",
     behaviour |-> "send_telemetry_event", client |-> ClientNew, backend |-> backend]

\* EventSenderFilter::send_telemetry_event.
SendTelemetryEvent(client, endpoint) ==
    LET sent == Send(client, endpoint)
    IN  IF ~sent.returns
        THEN NeverReturns
        ELSE IF IsErr(sent.result)
             THEN Returned(Err("Failed to send telemetry event"))
             ELSE IF IsSuccess(sent.result.value.status)
                  THEN Returned(Ok("unit"))
                  ELSE IF sent.result.value.status = 429
                       THEN Returned(Ok("unit"))
                       ELSE Returned(Err("Telemetry failed with status"))

\* EventSenderFilter::check: both arms of the match only log.
EventSenderCheck(filter, request) ==
    LET sent == SendTelemetryEvent(filter.client, filter.backend)
    IN  IF ~sent.returns
        THEN Pending
        ELSE IF IsOk(sent.result) THEN Allow ELSE Allow

(***************************************************************************)
(* RiskAnalysisFilter (src/filters/risk_analysis.rs).  The backend is the  *)
(* risk endpoint.  Scores and thresholds are counted in hundredths.        *)
(***************************************************************************)
RiskScores == {79, 80, 81}

\* suggested_transform: TransformSuggestion { command, args, reason }.
TransformSuggestions ==
    {None} \cup {Some([command |-> c, args |-> a]) :
                    c \in {None, Some("safe-npx")},
                    a \in {None, Some(<<"--transformed">>)}}

\* RiskAnalysisResponse.
RiskAnalysisResponses ==
    [risk_score : RiskScores, suggested_transform : TransformSuggestions]

RiskEndpoints ==
    {Unreachable, NoAnswer, Status(500, Unparsable), Status(200, Unparsable)}
        \cup {Status(200, r) : r \in RiskAnalysisResponses}

\* A risk filter that keeps the is_blocking of the trait.
RiskAnalysisFilterBlocking(threshold, backend) ==
    [name |-> "RiskAnalysis", is_blocking |-> "default", behaviour |-> "analyze_risk",
     client |-> ClientNew, threshold |-> threshold, backend |-> backend]

\* RiskAnalysisFilter::new.
RiskAnalysisFilter(threshold, backend) ==
    [name |-> "RiskAnalysis", is_blocking |-> "false", behaviour |-> "analyze_risk",
     client |-> ClientNew, threshold |-> threshold, backend |-> backend]

\* RiskAnalysisFilter::analyze_risk.
AnalyzeRisk(client, endpoint) ==
    LET sent == Send(client, endpoint)
    IN  IF ~sent.returns
        THEN NeverReturns
        ELSE IF IsErr(sent.result)
             THEN Returned(Err("Failed to send risk analysis request"))
             ELSE IF ~IsSuccess(sent.result.value.status)
                  THEN Returned(Err("Risk analysis failed with status"))
                  ELSE IF "risk_score" \notin DOMAIN sent.result.value.body
                       THEN Returned(Err("Failed to parse risk analysis response"))
                       ELSE Returned(Ok(sent.result.value.body))

\* The request a suggestion turns the current request into.
ApplyTransform(request, transform) ==
    [request EXCEPT !.command = IF transform.command.some
                                THEN transform.command.value ELSE @,
                    !.args    = IF transform.args.some
                                THEN transform.args.value ELSE @]

\* A check that blocks from the threshold on.
RiskAnalysisCheckBlocksAtThreshold(filter, request) ==
    LET analysed == AnalyzeRisk(filter.client, filter.backend)
    IN  IF ~analysed.returns
        THEN Pending
        ELSE IF IsErr(analysed.result)
             THEN CheckErr(analysed.result.error)
             ELSE LET analysis == analysed.result.value
                  IN  IF analysis.risk_score >= filter.threshold
                      THEN Block("Risk score exceeds threshold")
                      ELSE IF /\ analysis.suggested_transform.some
                              /\ \/ analysis.suggested_transform.value.command.some
                                 \/ analysis.suggested_transform.value.args.some
                           THEN Transform(ApplyTransform(request,
                                              analysis.suggested_transform.value))
                           ELSE Allow

\* RiskAnalysisFilter::check: the ? hands on the error of analyze_risk.
RiskAnalysisCheck(filter, request) ==
    LET analysed == AnalyzeRisk(filter.client, filter.backend)
    IN  IF ~analysed.returns
        THEN Pending
        ELSE IF IsErr(analysed.result)
             THEN CheckErr(analysed.result.error)
             ELSE LET analysis == analysed.result.value
                  IN  IF analysis.risk_score > filter.threshold
                      THEN Block("Risk score exceeds threshold")
                      ELSE IF /\ analysis.suggested_transform.some
                              /\ \/ analysis.suggested_transform.value.command.some
                                 \/ analysis.suggested_transform.value.args.some
                           THEN Transform(ApplyTransform(request,
                                              analysis.suggested_transform.value))
                           ELSE Allow

(***************************************************************************)
(* The filters.  A filter is a name, its is_blocking method ("default":    *)
(* the filter keeps the method of the trait, "false": it overrides it to   *)
(* return false) and the behaviour of its check:                           *)
(*   allow    Ok(Allow)                        (MockAllowFilter)           *)
(*   block    Ok(Block{reason})                (MockBlockFilter)           *)
(*   replace  Ok(Transform{a fixed request})   (MockTransformFilter)       *)
(*   rewrite  Ok(Transform{ctx.request with a new command and a metadata   *)
(*            entry})                          (a rewriting filter)        *)
(*   fail     Err(e)                           (a network or parse error)  *)
(***************************************************************************)
Behaviours == {"allow", "block", "replace", "rewrite", "fail"}

FilterNames == <<"F1", "F2", "F3", "F4", "F5", "F6">>

ReplacementRequest == NewProxyRequest("safe-npx", <<"--transformed">>)

\* filter.check(&ctx), as a function of the request the context carries.
Check(filter, request) ==
    CASE filter.behaviour = "allow"   -> Allow
      [] filter.behaviour = "block"   -> Block("Test block reason")
      [] filter.behaviour = "replace" -> Transform(ReplacementRequest)
      [] filter.behaviour = "rewrite" ->
            Transform([request EXCEPT !.command = "safe-npx",
                                      !.metadata = @ \cup {<<"risk", "reviewed">>}])
      [] filter.behaviour = "fail"    -> CheckErr("network error")
      [] filter.behaviour = "log_request"          -> LocalLoggerCheck(filter, request)
      [] filter.behaviour = "send_telemetry_event" -> EventSenderCheck(filter, request)
      [] filter.behaviour = "analyze_risk"         -> RiskAnalysisCheck(filter, request)

\* A trait whose default is_blocking returns false.
IsBlockingDefaultFalse(filter) == FALSE

\* filter.is_blocking(): the default method of the trait returns true.
IsBlocking(filter) ==
    IF filter.is_blocking = "default" THEN TRUE ELSE FALSE

\* The ordered filter lists of at most MaxFilters filters (add_filter).
Pipelines ==
    UNION { { [i \in 1..n |-> [name        |-> FilterNames[i],
                               is_blocking |-> shape[i][1],
                               behaviour   |-> shape[i][2]]] :
              shape \in [1..n -> {"default", "false"} \X Behaviours] } :
            n \in 0..MaxFilters }

VARIABLES
    filters,      \* FilterPipeline.filters
    ctxRequest,   \* ctx.request inside execute
    initialReq,   \* the request execute was called with
    idx,          \* position of the for loop of execute (1-based)
    observed,     \* the calls of check so far: <<position, request seen>>
    execResult,   \* the value execute returned, Running while it runs
    hm,           \* position of handle_monitor
    hmResult      \* the value handle_monitor returned

pipeVars == <<filters, ctxRequest, initialReq, idx, observed, execResult, hm, hmResult>>

VARIABLES
    impl,         \* the relay that runs: "run_proxy" or "run_proxy_process"
    rpc,          \* position of the supervisor (the caller of the two loops)
    runResult,    \* the value the supervisor returned, Running while it runs
    launched,     \* the program and the arguments handed to the spawn
    waited        \* what child.wait() returned

supVars == <<impl, rpc, runResult, launched, waited>>

VARIABLES
    child,        \* "none", "running" or "exited"
    stdinLeft,    \* how many lines the proxy's stdin will still deliver
    stdinEnd,     \* what follows them: "closed" (an EOF or a read error) or
                  \* "open" (nothing, ever)
    stdinSource,  \* the contents the lines of the proxy's stdin are drawn from
    childSource,  \* the contents the lines of the child's stdout are drawn from
    childStdin,   \* TRUE while the proxy holds the write end of the child's stdin
    outLeft       \* how many items the child's stdout will still deliver

envVars == <<child, stdinLeft, stdinEnd, stdinSource, childSource, childStdin, outLeft>>

VARIABLES
    pcIn,         \* position of the outbound loop (user -> child)
    curIn,        \* the line the outbound loop is handling
    readIn,       \* the lines read from the proxy's stdin
    toChild       \* the lines written to the child's stdin

inVars == <<pcIn, curIn, readIn, toChild>>

VARIABLES
    pcOut,        \* position of the inbound loop (child -> user)
    curOut,       \* the line the inbound loop is handling
    durOut,       \* duration_ms of the line the inbound loop is handling
    readOut,      \* the lines read from the child's stdout
    toStdout      \* the lines written to the proxy's stdout

outVars == <<pcOut, curOut, durOut, readOut, toStdout>>

VARIABLES
    timings,      \* request_timings: JSON-RPC id -> Instant of the request
    now,          \* the last value the monotonic clock returned
    answered      \* JSON-RPC id -> how many lines the outbound loop had taken
                  \* past its insert when the inbound loop last processed a
                  \* line with this id (history)

mapVars == <<timings, now, answered>>

VARIABLES
    trafficLog,   \* the file at log_file, the traffic log: its lines in order
    logDrops,     \* per direction, how many log writes failed (history)
    commandsLog   \* the file km_commands.log next to it: its lines in order

logVars == <<trafficLog, logDrops, commandsLog>>

VARIABLES
    aborted,      \* stdin_handle.abort() has been called
    evBufIn,      \* event_buffer of the EventSender of the outbound task
    evBufOut,     \* event_buffer of the EventSender of the inbound loop
    sendIn,       \* the batch the outbound task is sending, if any
    sendOut,      \* the batch the inbound side is sending, if any
    batches       \* per EventSender, the batches handed to send_event_batch
                  \* with their fate (history)

evVars == <<aborted, evBufIn, evBufOut, sendIn, sendOut, batches>>

loopVars == <<inVars, outVars, mapVars, logVars, evVars>>

relayVars == <<supVars, envVars, loopVars>>

VARIABLES
    batch_size,   \* EventSender.batch_size
    event_buffer, \* EventSender.event_buffer: the queue behind the mutex
    bufferGuard,  \* who holds the mutex of event_buffer, "free" if nobody
    clientGuard,  \* who holds the mutex of api_client, "free" if nobody
    pcCall,       \* per caller, the position of its call of the EventSender
    opCall,       \* per caller, the method it is calling
    callsLeft,    \* per caller, how many calls it will still make
    batchOf,      \* per caller, the batch its call has drained, if any
    buffered,     \* the events handed to buffer_event, in queue order (history)
    sent          \* the batches send_event_batch returned for (history)

batcherVars == <<batch_size, event_buffer, bufferGuard, clientGuard, pcCall,
                 opCall, callsLeft, batchOf, buffered, sent>>

VARIABLES
    keyringAvailable, \* whether KeyringTokenStore::new() succeeds in this environment
    accessEntry,      \* the keyring entry km-access-token: None or Some(json)
    refreshEntry,     \* the keyring entry km-refresh-token: None or Some(string)
    clock,            \* SystemTime::now() in seconds since the epoch
    pcAuth,           \* position of get_jwt_token_with_cache
    authCaller,       \* who called it: "handle_monitor" or "direct"
    newToken,         \* the token exchange_for_jwt returned
    authResult,       \* the value get_jwt_token_with_cache returned
    cur,              \* what the running call has met and done so far
    prevCall,         \* what the call that returned last had met and done
    sessions,         \* the calls made so far
    local_only,       \* the arguments of handle_monitor
    override_tier,
    user_tier,        \* the locals of handle_monitor
    jwt_token

sessionVars == <<keyringAvailable, accessEntry, refreshEntry, clock, pcAuth, authCaller,
                 newToken, authResult, cur, prevCall, sessions, local_only,
                 override_tier, user_tier, jwt_token>>

VARIABLES
    cacheFile,    \* token_cache.json, the file of TokenCache: None or Some(json)
    storeCall,    \* the last direct call of a token function and what it returned
    clearsInRow   \* per store, the calls of its clear since the last save,
                  \* counted from the last one the store has failed in

storeVars == <<cacheFile, storeCall, clearsInRow>>

\* The variables the steps of the pipeline and of the relays leave alone.
serviceVars == <<batcherVars, sessionVars, storeVars>>

vars == <<pipeVars, relayVars, serviceVars>>

\* EventSender::new sets batch_size.
BatchSize == 1

\* The two relay directions, the callers of an EventSender.
Callers == {"request", "response"}

\* An EventSender of a batch size, with no call under way.
BatcherOfSize(size) ==
    /\ batch_size = size
    /\ event_buffer = << >>
    /\ bufferGuard = "free"
    /\ clientGuard = "free"
    /\ pcCall = [c \in Callers |-> "idle"]
    /\ opCall = [c \in Callers |-> NoValue]
    /\ callsLeft = [c \in Callers |-> 0]
    /\ batchOf = [c \in Callers |-> None]
    /\ buffered = << >>
    /\ sent = << >>

\* An EventSender as EventSender::new returns it.
BatcherIdle == BatcherOfSize(BatchSize)

\* The start of the clock of the model.
Clock0 == 1000

\* What a call of get_jwt_token_with_cache has met and done when it starts.
NoCall ==
    [initFailed |-> FALSE, readFailed |-> FALSE, checkedAt |-> None,
     exchanges |-> 0, exchangeFailed |-> FALSE, writes |-> 0, saveFailed |-> FALSE]

\* No call has returned yet.
NoRecord ==
    [initFailed |-> FALSE, exchanges |-> 0, exchangeFailed |-> FALSE, writes |-> 0,
     saveFailed |-> FALSE, result |-> None]

\* No call of get_jwt_token_with_cache or handle_monitor has been made.
SessionIdle ==
    /\ keyringAvailable = TRUE
    /\ accessEntry = None
    /\ refreshEntry = None
    /\ clock = Clock0
    /\ pcAuth = "idle"
    /\ authCaller = NoValue
    /\ newToken = None
    /\ authResult = Running
    /\ cur = NoCall
    /\ prevCall = NoRecord
    /\ sessions = 0
    /\ local_only = FALSE
    /\ override_tier = None
    /\ user_tier = NoValue
    /\ jwt_token = None

\* No direct call of a token function has been made.
NoStoreCall == [op |-> NoValue]

StoreIdle ==
    /\ cacheFile = None
    /\ storeCall = NoStoreCall
    /\ clearsInRow = [keyring |-> 0, file |-> 0]

\* The components that take no step in a specification.
ServicesIdle == BatcherIdle /\ SessionIdle /\ StoreIdle

\* A loop that goes on to the next filter after a Block decision.
ExecuteIterationBlockContinues(filter, outcome, request) ==
    CASE outcome.kind = "Err" ->
            IF IsBlocking(filter)
            THEN [next |-> "return",
                  result |-> Err(<<"Filter", filter.name, "failed", outcome.error>>),
                  request |-> request]
            ELSE [next |-> "continue", result |-> Running, request |-> request]
      [] outcome.kind \in {"Allow", "Block"} ->
            [next |-> "continue", result |-> Running, request |-> request]
      [] outcome.kind = "Transform" ->
            [next |-> "continue", result |-> Running, request |-> outcome.new_request]

\* A loop that forgets to store the request of a Transform decision.
ExecuteIterationTransformLost(filter, outcome, request) ==
    CASE outcome.kind = "Err" ->
            IF IsBlocking(filter)
            THEN [next |-> "return",
                  result |-> Err(<<"Filter", filter.name, "failed", outcome.error>>),
                  request |-> request]
            ELSE [next |-> "continue", result |-> Running, request |-> request]
      [] outcome.kind \in {"Allow", "Transform"} ->
            [next |-> "continue", result |-> Running, request |-> request]
      [] outcome.kind = "Block" ->
            [next |-> "return",
             result |-> Err(<<"Request blocked by", filter.name, outcome.reason>>),
             request |-> request]

\* A loop that returns the error of every failing filter, blocking or not.
ExecuteIterationEveryErrorFatal(filter, outcome, request) ==
    CASE outcome.kind = "Err" ->
            [next |-> "return",
             result |-> Err(<<"Filter", filter.name, "failed", outcome.error>>),
             request |-> request]
      [] outcome.kind = "Allow" ->
            [next |-> "continue", result |-> Running, request |-> request]
      [] outcome.kind = "Block" ->
            [next |-> "return",
             result |-> Err(<<"Request blocked by", filter.name, outcome.reason>>),
             request |-> request]
      [] outcome.kind = "Transform" ->
            [next |-> "continue", result |-> Running, request |-> outcome.new_request]

(***************************************************************************)
(* One iteration of the for loop of FilterPipeline::execute: what the loop *)
(* does with the outcome of filter.check.  "next" is "continue" or         *)
(* "return".                                                               *)
(***************************************************************************)
ExecuteIteration(filter, outcome, request) ==
    CASE outcome.kind = "Err" ->
            IF IsBlocking(filter)
            THEN [next |-> "return",
                  result |-> Err(<<"Filter", filter.name, "failed", outcome.error>>),
                  request |-> request]
            ELSE [next |-> "continue", result |-> Running, request |-> request]
      [] outcome.kind = "Allow" ->
            [next |-> "continue", result |-> Running, request |-> request]
      [] outcome.kind = "Block" ->
            [next |-> "return",
             result |-> Err(<<"Request blocked by", filter.name, outcome.reason>>),
             request |-> request]
      [] outcome.kind = "Transform" ->
            [next |-> "continue", result |-> Running, request |-> outcome.new_request]

(***************************************************************************)
(* FilterPipeline::execute, one step per iteration of its for loop.        *)
(***************************************************************************)
ExecuteCheck ==
    /\ hm = "execute"
    /\ idx <= Len(filters)
    /\ Check(filters[idx], ctxRequest) # Pending
    /\ LET filter == filters[idx]
           step   == ExecuteIteration(filter, Check(filter, ctxRequest), ctxRequest)
       IN  /\ observed' = Append(observed, <<idx, ctxRequest>>)
           /\ ctxRequest' = step.request
           /\ IF step.next = "return"
              THEN /\ execResult' = step.result
                   /\ hm' = "executed"
                   /\ idx' = idx
              ELSE /\ idx' = idx + 1
                   /\ UNCHANGED <<execResult, hm>>
    /\ LET files == AppendLogRequest(filters[idx], ctxRequest, trafficLog, commandsLog)
       IN  /\ trafficLog' = files.traffic
           /\ commandsLog' = files.commands
    /\ UNCHANGED <<filters, initialReq, hmResult>>
    /\ UNCHANGED <<supVars, envVars, inVars, outVars, mapVars, logDrops, evVars>>
    /\ UNCHANGED serviceVars

\* The end of the for loop: Ok(ctx.request).
ExecuteReturn ==
    /\ hm = "execute"
    /\ idx > Len(filters)
    /\ execResult' = Ok(ctxRequest)
    /\ hm' = "executed"
    /\ UNCHANGED <<filters, ctxRequest, initialReq, idx, observed, hmResult, relayVars>>
    /\ UNCHANGED serviceVars

\* A handler that launches the command whatever the pipeline returned.
MonitorDispatchIgnoresError ==
    /\ hm = "executed"
    /\ hm' = "run_proxy"
    /\ impl' = "run_proxy"
    /\ rpc' = "spawn"
    /\ launched' = Some([program |-> ctxRequest.command, args |-> ctxRequest.args])
    /\ UNCHANGED hmResult
    /\ UNCHANGED <<filters, ctxRequest, initialReq, idx, observed, execResult>>
    /\ UNCHANGED <<runResult, waited, envVars, loopVars>>
    /\ UNCHANGED serviceVars

(***************************************************************************)
(* handle_monitor after pipeline.execute: an approved request is handed to *)
(* proxy::run_proxy, an error is returned as "Request blocked: ...".       *)
(***************************************************************************)
MonitorDispatch ==
    /\ hm = "executed"
    /\ IF IsOk(execResult)
       THEN /\ hm' = "run_proxy"
            /\ impl' = "run_proxy"
            /\ rpc' = "spawn"
            /\ launched' = Some([program |-> execResult.value.command,
                                 args    |-> execResult.value.args])
            /\ UNCHANGED hmResult
       ELSE /\ hm' = "done"
            /\ hmResult' = Err(<<"Request blocked", execResult.error>>)
            /\ UNCHANGED <<impl, rpc, launched>>
    /\ UNCHANGED <<filters, ctxRequest, initialReq, idx, observed, execResult>>
    /\ UNCHANGED <<runResult, waited, envVars, loopVars>>
    /\ UNCHANGED serviceVars

\* proxy::run_proxy(...)? followed by Ok(()).
MonitorReturn ==
    /\ hm = "run_proxy"
    /\ rpc = "done"
    /\ hm' = "done"
    /\ hmResult' = IF IsOk(runResult) THEN Ok("unit") ELSE runResult
    /\ UNCHANGED <<filters, ctxRequest, initialReq, idx, observed, execResult, relayVars>>
    /\ UNCHANGED serviceVars

\* A supervisor that goes on to start the relay loops after a failed spawn.
SpawnFailureStartsRelay ==
    /\ rpc = "spawn"
    /\ \E ok \in BOOLEAN :
          IF ok
          THEN /\ child' = "running"
               /\ childStdin' = TRUE
               /\ pcIn' = IF impl = "run_proxy" THEN "read" ELSE "spawned"
               /\ pcOut' = "read"
               /\ rpc' = IF impl = "run_proxy" THEN "joinStdin" ELSE "inbound"
               /\ UNCHANGED runResult
          ELSE /\ pcIn' = IF impl = "run_proxy" THEN "read" ELSE "spawned"
               /\ pcOut' = "read"
               /\ rpc' = IF impl = "run_proxy" THEN "joinStdin" ELSE "inbound"
               /\ UNCHANGED <<child, childStdin, runResult>>
    /\ UNCHANGED <<impl, launched, waited, stdinLeft, stdinEnd, stdinSource, childSource, outLeft>>
    /\ UNCHANGED <<curIn, readIn, toChild, curOut, durOut, readOut, toStdout>>
    /\ UNCHANGED <<mapVars, logVars, evVars, pipeVars>>
    /\ UNCHANGED serviceVars

(***************************************************************************)
(* The spawn of the child, the first statement of both supervisors.  It    *)
(* either fails (the error is returned at once) or starts the child with   *)
(* both pipes, after which the two relay loops are started.                *)
(***************************************************************************)
Spawn ==
    /\ rpc = "spawn"
    /\ \E ok \in BOOLEAN :
          IF ok
          THEN /\ child' = "running"
               /\ childStdin' = TRUE
               /\ pcIn' = IF impl = "run_proxy" THEN "read" ELSE "spawned"
               /\ pcOut' = "read"
               /\ rpc' = IF impl = "run_proxy" THEN "joinStdin" ELSE "inbound"
               /\ UNCHANGED runResult
          ELSE /\ runResult' = Err(<<"spawn failed">>)
               /\ rpc' = "done"
               /\ UNCHANGED <<child, childStdin, pcIn, pcOut>>
    /\ UNCHANGED <<impl, launched, waited, stdinLeft, stdinEnd, stdinSource, childSource, outLeft>>
    /\ UNCHANGED <<curIn, readIn, toChild, curOut, durOut, readOut, toStdout>>
    /\ UNCHANGED <<mapVars, logVars, evVars, pipeVars>>
    /\ UNCHANGED serviceVars

\* The contents the proxy's stdin delivers, and those the child writes, where
\* a specification does not choose others.
StdinLines == {"rpc1", "rpc2", "text"}

ChildLines == {"rpc1", "obj1", "text"}

\* The relay before run is called: no child, no loop, nothing read or written.
RelayIdle ==
    /\ runResult = Running
    /\ waited = None
    /\ child = "none"
    /\ childStdin = FALSE
    /\ pcIn = "notStarted"
    /\ curIn = NoValue
    /\ readIn = << >>
    /\ toChild = << >>
    /\ pcOut = "notStarted"
    /\ curOut = NoValue
    /\ durOut = None
    /\ readOut = << >>
    /\ toStdout = << >>
    /\ timings = << >>
    /\ now = 0
    /\ answered = << >>
    /\ trafficLog = << >>
    /\ logDrops = [request |-> 0, response |-> 0]
    /\ commandsLog = << >>
    /\ aborted = FALSE
    /\ evBufIn = << >>
    /\ evBufOut = << >>
    /\ sendIn = None
    /\ sendOut = None
    /\ batches = [request |-> << >>, response |-> << >>]

(***************************************************************************)
(* The pipeline specification: handle_monitor from the call of             *)
(* pipeline.execute on, for every filter list and every launch command.    *)
(***************************************************************************)
InitPipeline ==
    /\ filters \in Pipelines
    /\ initialReq \in {NewProxyRequest(c, a) : c \in Commands, a \in ArgLists}
    /\ ctxRequest = initialReq
    /\ idx = 1
    /\ observed = << >>
    /\ execResult = Running
    /\ hm = "execute"
    /\ hmResult = Running
    /\ impl = "run_proxy"
    /\ rpc = "idle"
    /\ launched = None
    /\ stdinLeft = 0
    /\ stdinEnd = "closed"
    /\ stdinSource = StdinLines
    /\ childSource = ChildLines
    /\ outLeft = 0
    /\ RelayIdle
    /\ ServicesIdle

NextPipeline ==
    \/ ExecuteCheck
    \/ ExecuteReturn
    \/ MonitorDispatch
    \/ MonitorReturn
    \/ Spawn

SpecPipeline == InitPipeline /\ [][NextPipeline]_vars

(***************************************************************************)
(* The lines on the wire.  A line is its content without the terminator:   *)
(*   rpc1  {"jsonrpc":"2.0","id":1,"method":"initialize"}                  *)
(*   rpc2  {"jsonrpc":"2.0","id":2,"result":"ok"}                          *)
(*   note  {"jsonrpc":"2.0","method":"notifications/initialized"}          *)
(*   obj1  {"id":1}                                                        *)
(*   text  not JSON                                                        *)
(* InvalidUtf8 stands for bytes that make BufRead::lines yield Err.        *)
(***************************************************************************)
Lines == {"rpc1", "rpc2", "note", "obj1", "text"}

InvalidUtf8 == "invalid-utf8"

\* serde_json::from_str::<Value>(content)
FromStr(content) ==
    CASE content = "rpc1" -> Ok([jsonrpc |-> "2.0", id |-> 1, method |-> "initialize"])
      [] content = "rpc2" -> Ok([jsonrpc |-> "2.0", id |-> 2, result |-> "ok"])
      [] content = "note" -> Ok([jsonrpc |-> "2.0", method |-> "notifications/initialized"])
      [] content = "obj1" -> Ok([id |-> 1])
      [] OTHER            -> Err("expected value")

\* Value::get(key)
Get(json, key) == IF key \in DOMAIN json THEN Some(json[key]) ELSE None

\* A correlation that takes the id of any JSON line, JSON-RPC or not.
TrackedIdOfAnyJson(content) ==
    LET parsed == FromStr(content)
    IN  IF IsOk(parsed) THEN Get(parsed.value, "id") ELSE None

\* The id a line is tracked under: the line parses as JSON, has a jsonrpc
\* key and has an id.
TrackedId(content) ==
    LET parsed == FromStr(content)
    IN  IF IsOk(parsed) /\ Get(parsed.value, "jsonrpc").some
        THEN Get(parsed.value, "id")
        ELSE None

\* Instant::now().  The monotonic clock is modelled as advancing by one tick
\* with every line the proxy reads from its stdin.
InstantNow == now

\* An insert that keeps the instant of an id that is already pending.
TimingsInsertKeepsFirst(map, id, instant) ==
    [k \in DOMAIN map \cup {id} |-> IF k \in DOMAIN map THEN map[k] ELSE instant]

\* HashMap::insert and HashMap::remove on request_timings.
TimingsInsert(map, id, instant) ==
    [k \in DOMAIN map \cup {id} |-> IF k = id THEN instant ELSE map[k]]

\* A removal that evicts every pending entry along with the matched one.
TimingsRemoveEvictsAll(map, id) == [k \in {} |-> map[k]]

TimingsRemove(map, id) == [k \in DOMAIN map \ {id} |-> map[k]]

\* The JSON object of one traffic-log line (the wall-clock timestamp is left
\* out); duration_ms is a key only when a duration is given.
LogEntryJson(direction, content, duration_ms) ==
    IF duration_ms.some
    THEN [direction |-> direction, content |-> content, duration_ms |-> duration_ms.value]
    ELSE [direction |-> direction, content |-> content]

\* A logger that puts the entry before the others.
LogMcpTrafficPrepends(log, direction, content, duration_ms, opened) ==
    IF opened
    THEN <<LogEntryJson(direction, content, duration_ms)>> \o log
    ELSE log

\* log_mcp_traffic: the entry is appended when the file opens; every I/O
\* error is swallowed.
LogMcpTraffic(log, direction, content, duration_ms, opened) ==
    IF opened
    THEN Append(log, LogEntryJson(direction, content, duration_ms))
    ELSE log

CountDrop(drops, direction, opened) ==
    IF opened THEN drops ELSE [drops EXCEPT ![direction] = @ + 1]

(***************************************************************************)
(* The environment of the relay.  What the proxy's stdin and the child's   *)
(* stdout deliver is chosen when it is read: each delivers a number of     *)
(* items fixed at the start (stdinLeft, outLeft), of any content.  The     *)
(* child may exit at any moment; what it wrote before stays readable, and  *)
(* its exit status is chosen when child.wait() returns it.                 *)
(***************************************************************************)
ChildExit ==
    /\ child = "running"
    /\ child' = "exited"
    /\ UNCHANGED <<stdinLeft, stdinEnd, stdinSource, childSource, childStdin, outLeft>>
    /\ UNCHANGED <<supVars, loopVars, pipeVars>>
    /\ UNCHANGED serviceVars

\* The positions of a loop that has ended: its iterator returned None
\* ("eof"), or the body left it with break ("broke").
Ended == {"eof", "broke"}

\* An outbound loop that ends when the log write of a line fails.
StdinThreadReadStopsOnLogFailure ==
    /\ impl = "run_proxy"
    /\ pcIn = "read"
    /\ IF stdinLeft > 0
       THEN /\ stdinLeft' = stdinLeft - 1
            /\ \E line \in stdinSource, opened \in BOOLEAN :
                  /\ curIn' = line
                  /\ readIn' = Append(readIn, line)
                  /\ trafficLog' = LogMcpTraffic(trafficLog, "request", line, None, opened)
                  /\ logDrops' = CountDrop(logDrops, "request", opened)
                  /\ UNCHANGED commandsLog
                  /\ pcIn' = IF opened THEN "track" ELSE "broke"
            /\ now' = now + 1
            /\ UNCHANGED childStdin
       ELSE /\ stdinEnd = "closed"
            /\ pcIn' = "eof"
            /\ childStdin' = FALSE
            /\ UNCHANGED <<curIn, stdinLeft, readIn, logVars, now>>
    /\ UNCHANGED <<child, stdinEnd, stdinSource, childSource, outLeft, toChild, timings, answered>>
    /\ UNCHANGED <<supVars, outVars, evVars, pipeVars>>
    /\ UNCHANGED serviceVars

\* An outbound loop that keeps the write end of the child's stdin after the
\* EOF of the proxy's stdin.
StdinThreadReadKeepsChildStdin ==
    /\ impl = "run_proxy"
    /\ pcIn = "read"
    /\ IF stdinLeft > 0
       THEN /\ stdinLeft' = stdinLeft - 1
            /\ \E line \in stdinSource, opened \in BOOLEAN :
                  /\ curIn' = line
                  /\ readIn' = Append(readIn, line)
                  /\ trafficLog' = LogMcpTraffic(trafficLog, "request", line, None, opened)
                  /\ logDrops' = CountDrop(logDrops, "request", opened)
                  /\ UNCHANGED commandsLog
            /\ now' = now + 1
            /\ pcIn' = "track"
       ELSE /\ stdinEnd = "closed"
            /\ pcIn' = "eof"
            /\ UNCHANGED <<curIn, stdinLeft, readIn, logVars, now>>
    /\ UNCHANGED <<child, stdinEnd, stdinSource, childSource, childStdin, outLeft, toChild, timings, answered>>
    /\ UNCHANGED <<supVars, outVars, evVars, pipeVars>>
    /\ UNCHANGED serviceVars

\* An outbound loop that makes no log call for the lines it reads.
StdinThreadReadWithoutLog ==
    /\ impl = "run_proxy"
    /\ pcIn = "read"
    /\ IF stdinLeft > 0
       THEN /\ stdinLeft' = stdinLeft - 1
            /\ \E line \in stdinSource :
                  /\ curIn' = line
                  /\ readIn' = Append(readIn, line)
            /\ now' = now + 1
            /\ pcIn' = "track"
            /\ UNCHANGED <<childStdin, logVars>>
       ELSE /\ stdinEnd = "closed"
            /\ pcIn' = "eof"
            /\ childStdin' = FALSE
            /\ UNCHANGED <<curIn, stdinLeft, readIn, logVars, now>>
    /\ UNCHANGED <<child, stdinEnd, stdinSource, childSource, outLeft, toChild, timings, answered>>
    /\ UNCHANGED <<supVars, outVars, evVars, pipeVars>>
    /\ UNCHANGED serviceVars

(***************************************************************************)
(* proxy::run_proxy, thread 1 (stdin_thread): the proxy's stdin to the     *)
(* child's stdin.  A step of the thread ends at an access to what it       *)
(* shares with the other thread or with the child (the log file, the       *)
(* timings map, the pipe to the child); reading its own stdin is part of   *)
(* the step that logs the line.                                            *)
(***************************************************************************)
StdinThreadRead ==
    /\ impl = "run_proxy"
    /\ pcIn = "read"
    /\ IF stdinLeft > 0
       THEN /\ stdinLeft' = stdinLeft - 1
            /\ \E line \in stdinSource, opened \in BOOLEAN :
                  /\ curIn' = line
                  /\ readIn' = Append(readIn, line)
                  /\ trafficLog' = LogMcpTraffic(trafficLog, "request", line, None, opened)
                  /\ logDrops' = CountDrop(logDrops, "request", opened)
                  /\ UNCHANGED commandsLog
            /\ now' = now + 1
            /\ pcIn' = "track"
            /\ UNCHANGED childStdin
       ELSE /\ stdinEnd = "closed"
            /\ pcIn' = "eof"
            /\ childStdin' = FALSE
            /\ UNCHANGED <<curIn, stdinLeft, readIn, logVars, now>>
    /\ UNCHANGED <<child, stdinEnd, stdinSource, childSource, outLeft, toChild, timings, answered>>
    /\ UNCHANGED <<supVars, outVars, evVars, pipeVars>>
    /\ UNCHANGED serviceVars

\* An outbound loop that forwards a request without the insert into
\* request_timings.
StdinThreadTrackWithoutInsert ==
    /\ impl = "run_proxy"
    /\ pcIn = "track"
    /\ pcIn' = "write"
    /\ UNCHANGED <<curIn, readIn, toChild>>
    /\ UNCHANGED <<supVars, envVars, outVars, mapVars, logVars, evVars, pipeVars>>
    /\ UNCHANGED serviceVars

\* An outbound loop that tracks the id of any JSON line, JSON-RPC or not.
StdinThreadTrackAnyJson ==
    /\ impl = "run_proxy"
    /\ pcIn = "track"
    /\ LET id == TrackedIdOfAnyJson(curIn)
       IN  IF id.some
           THEN timings' = TimingsInsert(timings, id.value, InstantNow)
           ELSE UNCHANGED timings
    /\ UNCHANGED <<now, answered>>
    /\ pcIn' = "write"
    /\ UNCHANGED <<curIn, readIn, toChild>>
    /\ UNCHANGED <<supVars, envVars, outVars, logVars, evVars, pipeVars>>
    /\ UNCHANGED serviceVars

\* The insert into request_timings, between the log write and the write to
\* the child.
StdinThreadTrack ==
    /\ impl = "run_proxy"
    /\ pcIn = "track"
    /\ LET id == TrackedId(curIn)
       IN  IF id.some
           THEN timings' = TimingsInsert(timings, id.value, InstantNow)
           ELSE UNCHANGED timings
    /\ UNCHANGED <<now, answered>>
    /\ pcIn' = "write"
    /\ UNCHANGED <<curIn, readIn, toChild>>
    /\ UNCHANGED <<supVars, envVars, outVars, logVars, evVars, pipeVars>>
    /\ UNCHANGED serviceVars

\* writeln!(child_stdin, ...) and flush: the write fails once the child has
\* gone, which ends the loop and drops child_stdin.
StdinThreadWrite ==
    /\ impl = "run_proxy"
    /\ pcIn = "write"
    /\ IF child = "running"
       THEN /\ toChild' = Append(toChild, curIn)
            /\ pcIn' = "read"
            /\ UNCHANGED childStdin
       ELSE /\ pcIn' = "broke"
            /\ childStdin' = FALSE
            /\ UNCHANGED toChild
    /\ curIn' = NoValue
    /\ UNCHANGED <<child, stdinLeft, stdinEnd, stdinSource, childSource, outLeft, readIn>>
    /\ UNCHANGED <<supVars, outVars, mapVars, logVars, evVars, pipeVars>>
    /\ UNCHANGED serviceVars

\* How many lines the outbound loop has taken past the insert into
\* request_timings: all it has read but the one it is about to track.
Inserted == IF pcIn = "track" THEN Len(readIn) - 1 ELSE Len(readIn)

(***************************************************************************)
(* proxy::run_proxy, thread 2 (stdout_thread): the child's stdout to the   *)
(* proxy's stdout.  Reading a line is part of the step that matches it     *)
(* against request_timings under the mutex.                                *)
(***************************************************************************)
StdoutThreadRead ==
    /\ impl = "run_proxy"
    /\ pcOut = "read"
    /\ IF outLeft > 0
       THEN /\ outLeft' = outLeft - 1
            /\ \E item \in childSource \cup {InvalidUtf8} :
                  IF item = InvalidUtf8
                  THEN /\ pcOut' = "broke"
                       /\ UNCHANGED <<curOut, durOut, readOut, timings, answered>>
                  ELSE /\ curOut' = item
                       /\ readOut' = Append(readOut, item)
                       /\ pcOut' = "log"
                       /\ LET id == TrackedId(item)
                          IN  /\ IF id.some /\ id.value \in DOMAIN timings
                                 THEN /\ durOut' = Some(InstantNow - timings[id.value])
                                      /\ timings' = TimingsRemove(timings, id.value)
                                 ELSE /\ durOut' = None
                                      /\ UNCHANGED timings
                              /\ answered' = IF id.some
                                             THEN TimingsInsert(answered, id.value, Inserted)
                                             ELSE answered
       ELSE /\ child = "exited"
            /\ pcOut' = "eof"
            /\ UNCHANGED <<outLeft, curOut, durOut, readOut, timings, answered>>
    /\ UNCHANGED <<child, stdinLeft, stdinEnd, stdinSource, childSource, childStdin>>
    /\ UNCHANGED <<toStdout, now>>
    /\ UNCHANGED <<supVars, inVars, logVars, evVars, pipeVars>>
    /\ UNCHANGED serviceVars

\* log_mcp_traffic("response", &content, ..., duration_ms)
StdoutThreadLog ==
    /\ impl = "run_proxy"
    /\ pcOut = "log"
    /\ \E opened \in BOOLEAN :
          /\ trafficLog' = LogMcpTraffic(trafficLog, "response", curOut, durOut, opened)
          /\ logDrops' = CountDrop(logDrops, "response", opened)
          /\ UNCHANGED commandsLog
    /\ pcOut' = "print"
    /\ UNCHANGED <<curOut, durOut, readOut, toStdout>>
    /\ UNCHANGED <<supVars, envVars, inVars, mapVars, evVars, pipeVars>>
    /\ UNCHANGED serviceVars

\* println! and the flush of the proxy's stdout; a failure ends the loop.
StdoutThreadPrint ==
    /\ impl = "run_proxy"
    /\ pcOut = "print"
    /\ \E written \in BOOLEAN :
          IF written
          THEN /\ toStdout' = Append(toStdout, curOut)
               /\ pcOut' = "read"
          ELSE /\ pcOut' = "broke"
               /\ UNCHANGED toStdout
    /\ curOut' = NoValue
    /\ durOut' = None
    /\ UNCHANGED readOut
    /\ UNCHANGED <<supVars, envVars, inVars, mapVars, logVars, evVars, pipeVars>>
    /\ UNCHANGED serviceVars

(***************************************************************************)
(* proxy::run_proxy, the calling thread: join both threads, then wait for  *)
(* the child and turn its status into the result.                          *)
(***************************************************************************)
JoinStdinThread ==
    /\ impl = "run_proxy"
    /\ rpc = "joinStdin"
    /\ pcIn \in Ended
    /\ rpc' = "joinStdout"
    /\ UNCHANGED <<impl, runResult, launched, waited>>
    /\ UNCHANGED <<envVars, loopVars, pipeVars>>
    /\ UNCHANGED serviceVars

JoinStdoutThread ==
    /\ impl = "run_proxy"
    /\ rpc = "joinStdout"
    /\ pcOut \in Ended
    /\ rpc' = "wait"
    /\ UNCHANGED <<impl, runResult, launched, waited>>
    /\ UNCHANGED <<envVars, loopVars, pipeVars>>
    /\ UNCHANGED serviceVars

\* What child.wait() may return once the child has exited.
WaitOutcomes == {Ok("success"), Ok("failure"), Err("wait failed")}

\* The match on child.wait() at the end of run_proxy.
RunProxyResult(wait) ==
    IF IsOk(wait)
    THEN IF wait.value = "success"
         THEN Ok("unit")
         ELSE Err(<<"Child process failed with status", wait.value>>)
    ELSE wait

ChildWait ==
    /\ impl = "run_proxy"
    /\ rpc = "wait"
    /\ child = "exited"
    /\ \E wait \in WaitOutcomes :
          /\ waited' = Some(wait)
          /\ runResult' = RunProxyResult(wait)
    /\ rpc' = "done"
    /\ UNCHANGED <<impl, launched>>
    /\ UNCHANGED <<envVars, loopVars, pipeVars>>
    /\ UNCHANGED serviceVars

(***************************************************************************)
(* The relay specification: a supervisor called on a launch command, for   *)
(* every input on the proxy's stdin and every behaviour of the child.      *)
(***************************************************************************)
InitRelayFrom(stdin_lines, child_lines) ==
    /\ impl \in {"run_proxy"}
    /\ rpc = "spawn"
    /\ launched = Some([program |-> "npx", args |-> << >>])
    /\ stdinLeft \in 0..MaxLines
    /\ stdinEnd \in {"closed", "open"}
    /\ stdinSource = stdin_lines
    /\ childSource = child_lines
    /\ outLeft \in 0..(MaxLines - stdinLeft)
    /\ RelayIdle
    /\ filters = << >>
    /\ initialReq = NewProxyRequest("npx", << >>)
    /\ ctxRequest = initialReq
    /\ idx = 1
    /\ observed = << >>
    /\ execResult = Ok(initialReq)
    /\ hm = "run_proxy"
    /\ hmResult = Running
    /\ ServicesIdle

InitRelay == InitRelayFrom(StdinLines, ChildLines)

NextRelay ==
    \/ Spawn
    \/ ChildExit
    \/ StdinThreadRead
    \/ StdinThreadTrack
    \/ StdinThreadWrite
    \/ StdoutThreadRead
    \/ StdoutThreadLog
    \/ StdoutThreadPrint
    \/ JoinStdinThread
    \/ JoinStdoutThread
    \/ ChildWait
    \/ MonitorReturn

SpecRelay == InitRelay /\ [][NextRelay]_vars

(***************************************************************************)
(* The relay under fair scheduling, with a child that exits on EOF of its  *)
(* stdin.  The operating system runs every thread that can take a step:    *)
(* the two relay threads and the calling thread, which blocks in join and  *)
(* in child.wait() until the thread or the child has ended.  A read of the *)
(* proxy's stdin that has nothing to deliver and no EOF blocks for ever    *)
(* and is no step.  The child exits once the write end of its stdin has    *)
(* been dropped; it may also exit earlier.  For termination the content of *)
(* a line matters only in that it is tracked or not.                       *)
(***************************************************************************)
FairRelay ==
    /\ WF_vars(StdinThreadRead \/ StdinThreadTrack \/ StdinThreadWrite)
    /\ WF_vars(StdoutThreadRead \/ StdoutThreadLog \/ StdoutThreadPrint)
    /\ WF_vars(JoinStdinThread \/ JoinStdoutThread \/ ChildWait)
    /\ WF_vars(~childStdin /\ ChildExit)

SpecRelayFair ==
    /\ InitRelayFrom({"rpc1", "text"}, {"rpc1", "text"})
    /\ [][NextRelay]_vars
    /\ FairRelay

(***************************************************************************)
(* The relay on lines of every kind in both directions: a JSON-RPC line    *)
(* with an id, a notification, a JSON value without a jsonrpc key and a    *)
(* line that is not JSON.                                                  *)
(***************************************************************************)
SpecRelayEveryKind ==
    /\ InitRelayFrom({"rpc1", "note", "obj1", "text"}, {"rpc1", "note", "obj1", "text"})
    /\ [][NextRelay]_vars

(***************************************************************************)
(* ProcessManager::run_proxy_process, the relay on the async runtime.  The *)
(* outbound loop is a spawned task (stdin_handle), the inbound loop runs   *)
(* in the calling task; each has its own EventSender and LogRepository.    *)
(* There is no correlation map in this relay.                              *)
(***************************************************************************)
\* extract_method_from_content
ExtractMethodFromContent(content) ==
    LET parsed == FromStr(content)
    IN  IF IsOk(parsed) THEN Get(parsed.value, "method") ELSE None

\* create_request_event and create_response_event (the random id, the
\* timestamp and the size are left out).
CreateRequestEvent(content, method) ==
    [direction |-> "request", method |-> method, payload |-> content]

CreateResponseEvent(content, method) ==
    [direction |-> "response", method |-> method, payload |-> content]

\* LogEntry::format_for_log (the timestamp is left out).
FormatForLog(entry_type, content) ==
    [prefix |-> IF entry_type = "Request" THEN "REQUEST" ELSE "RESPONSE",
     content |-> content]

\* LogRepository::write_entry; the caller discards the Result.
WriteEntry(log, entry_type, content, written) ==
    IF written THEN Append(log, FormatForLog(entry_type, content)) ELSE log

\* A flush that copies the queue into the batch and leaves the queue as it is.
FlushBufferInternalKeepsQueue(buffer) ==
    IF buffer = << >>
    THEN [buffer |-> << >>, batch |-> None]
    ELSE [buffer |-> buffer, batch |-> Some(buffer)]

\* EventSender::flush_buffer_internal up to the send: the whole queue is
\* drained into one batch, unless it is empty.
FlushBufferInternal(buffer) ==
    IF buffer = << >>
    THEN [buffer |-> << >>, batch |-> None]
    ELSE [buffer |-> << >>, batch |-> Some(buffer)]

\* A buffer_event that flushes only once the queue is longer than size.
BufferEventFlushesPastThreshold(buffer, event, size) ==
    LET pushed == Append(buffer, event)
    IN  IF Len(pushed) > size
        THEN FlushBufferInternal(pushed)
        ELSE [buffer |-> pushed, batch |-> None]

\* EventSender::buffer_event up to the send.
BufferEvent(buffer, event, size) ==
    LET pushed == Append(buffer, event)
    IN  IF Len(pushed) >= size
        THEN FlushBufferInternal(pushed)
        ELSE [buffer |-> pushed, batch |-> None]

\* The contents the two streams deliver to this relay, which looks at a line
\* only for its method.
TaskStdinLines == {"note", "text"}

TaskChildLines == {"rpc2", "text"}

\* What ApiClient::send_event_batch may return: Ok(()) or an error.
SendOutcomes == {"sent", "failed"}

\* The record of a batch handed to send_event_batch.
BatchRecord(events, fate) == [events |-> events, fate |-> fate]

\* The stdin task reads a line (a blocking read: the task cannot be
\* cancelled inside it), writes its log entry and buffers its event, up to
\* the send of a batch if the queue is full.  A read error makes
\* line.unwrap() panic, which ends the task at once.
StdinTaskRead ==
    /\ impl = "run_proxy_process"
    /\ pcIn \in {"spawned", "read"}
    /\ pcIn = "spawned" => ~aborted
    /\ IF stdinLeft > 0
       THEN /\ stdinLeft' = stdinLeft - 1
            /\ \E item \in stdinSource \cup {InvalidUtf8} :
                  IF item = InvalidUtf8
                  THEN /\ pcIn' = "panicked"
                       /\ childStdin' = FALSE
                       /\ UNCHANGED <<curIn, readIn, logVars, evBufIn, sendIn>>
                  ELSE /\ \E written \in BOOLEAN :
                             /\ trafficLog' = WriteEntry(trafficLog, "Request", item, written)
                             /\ logDrops' = CountDrop(logDrops, "request", written)
                             /\ UNCHANGED commandsLog
                       /\ curIn' = item
                       /\ readIn' = Append(readIn, item)
                       /\ LET method == ExtractMethodFromContent(item)
                              after == BufferEvent(evBufIn, CreateRequestEvent(item, method), batch_size)
                          IN  /\ evBufIn' = after.buffer
                              /\ sendIn' = after.batch
                              /\ pcIn' = IF after.batch.some THEN "send" ELSE "write"
                       /\ UNCHANGED childStdin
       ELSE /\ stdinEnd = "closed"
            /\ pcIn' = "flush"
            /\ UNCHANGED <<stdinLeft, childStdin, curIn, readIn, logVars, evBufIn, sendIn>>
    /\ UNCHANGED <<child, stdinEnd, stdinSource, childSource, outLeft, toChild>>
    /\ UNCHANGED <<aborted, evBufOut, sendOut, batches>>
    /\ UNCHANGED <<supVars, outVars, mapVars, pipeVars>>
    /\ UNCHANGED serviceVars

\* send_event_batch returns to the stdin task: an error is only printed.
StdinTaskSend ==
    /\ impl = "run_proxy_process"
    /\ pcIn \in {"send", "flushSend"}
    /\ \E fate \in SendOutcomes :
          batches' = [batches EXCEPT !.request = Append(@, BatchRecord(sendIn.value, fate))]
    /\ sendIn' = None
    /\ IF pcIn = "send"
       THEN /\ pcIn' = "write"
            /\ UNCHANGED childStdin
       ELSE /\ pcIn' = "finished"
            /\ childStdin' = FALSE
    /\ UNCHANGED <<curIn, readIn, toChild>>
    /\ UNCHANGED <<aborted, evBufIn, evBufOut, sendOut>>
    /\ UNCHANGED <<child, stdinLeft, stdinEnd, stdinSource, childSource, outLeft>>
    /\ UNCHANGED <<supVars, outVars, mapVars, logVars, pipeVars>>
    /\ UNCHANGED serviceVars

\* child_stdin.write_all(line) and write_all("\n"): a failure ends the loop.
StdinTaskWrite ==
    /\ impl = "run_proxy_process"
    /\ pcIn = "write"
    /\ IF child = "running"
       THEN /\ toChild' = Append(toChild, curIn)
            /\ pcIn' = "read"
       ELSE /\ pcIn' = "flush"
            /\ UNCHANGED toChild
    /\ curIn' = NoValue
    /\ UNCHANGED readIn
    /\ UNCHANGED <<supVars, envVars, outVars, mapVars, logVars, evVars, pipeVars>>
    /\ UNCHANGED serviceVars

\* event_sender_clone.flush_buffer() after the loop; the task then ends and
\* drops child_stdin.
StdinTaskFlush ==
    /\ impl = "run_proxy_process"
    /\ pcIn = "flush"
    /\ LET after == FlushBufferInternal(evBufIn)
       IN  /\ evBufIn' = after.buffer
           /\ sendIn' = after.batch
           /\ pcIn' = IF after.batch.some THEN "flushSend" ELSE "finished"
           /\ childStdin' = IF after.batch.some THEN childStdin ELSE FALSE
    /\ UNCHANGED <<curIn, readIn, toChild>>
    /\ UNCHANGED <<aborted, evBufOut, sendOut, batches>>
    /\ UNCHANGED <<child, stdinLeft, stdinEnd, stdinSource, childSource, outLeft>>
    /\ UNCHANGED <<supVars, outVars, mapVars, logVars, pipeVars>>
    /\ UNCHANGED serviceVars

\* The aborted task is dropped where it waits: before its first poll, in the
\* send of a batch (the batch is lost with it) or in the write to the child.
StdinTaskCancelled ==
    /\ impl = "run_proxy_process"
    /\ aborted
    /\ pcIn \in {"spawned", "send", "flushSend", "write"}
    /\ pcIn' = "cancelled"
    /\ childStdin' = FALSE
    /\ curIn' = NoValue
    /\ IF sendIn.some
       THEN batches' = [batches EXCEPT
                           !.request = Append(@, BatchRecord(sendIn.value, "cancelled"))]
       ELSE UNCHANGED batches
    /\ sendIn' = None
    /\ UNCHANGED <<readIn, toChild>>
    /\ UNCHANGED <<aborted, evBufIn, evBufOut, sendOut>>
    /\ UNCHANGED <<child, stdinLeft, stdinEnd, stdinSource, childSource, outLeft>>
    /\ UNCHANGED <<supVars, outVars, mapVars, logVars, pipeVars>>
    /\ UNCHANGED serviceVars

\* The inbound loop (the calling task) takes a line from the child's stdout,
\* writes its log entry and buffers its event, up to the send of a batch if
\* the queue is full; a read error and the end of the stream both end the
\* loop.
InboundRead ==
    /\ impl = "run_proxy_process"
    /\ rpc = "inbound"
    /\ pcOut = "read"
    /\ IF outLeft > 0
       THEN /\ outLeft' = outLeft - 1
            /\ \E item \in childSource \cup {InvalidUtf8} :
                  IF item = InvalidUtf8
                  THEN /\ pcOut' = "broke"
                       /\ UNCHANGED <<curOut, readOut, logVars, evBufOut, sendOut>>
                  ELSE /\ \E written \in BOOLEAN :
                             /\ trafficLog' = WriteEntry(trafficLog, "Response", item, written)
                             /\ logDrops' = CountDrop(logDrops, "response", written)
                             /\ UNCHANGED commandsLog
                       /\ curOut' = item
                       /\ readOut' = Append(readOut, item)
                       /\ LET method == ExtractMethodFromContent(item)
                              after == BufferEvent(evBufOut, CreateResponseEvent(item, method), batch_size)
                          IN  /\ evBufOut' = after.buffer
                              /\ sendOut' = after.batch
                              /\ pcOut' = IF after.batch.some THEN "send" ELSE "print"
       ELSE /\ child = "exited"
            /\ pcOut' = "eof"
            /\ UNCHANGED <<outLeft, curOut, readOut, logVars, evBufOut, sendOut>>
    /\ UNCHANGED <<child, stdinLeft, stdinEnd, stdinSource, childSource, childStdin>>
    /\ UNCHANGED <<durOut, toStdout>>
    /\ UNCHANGED <<aborted, evBufIn, sendIn, batches>>
    /\ UNCHANGED <<supVars, inVars, mapVars, pipeVars>>
    /\ UNCHANGED serviceVars

\* send_event_batch returns to the calling task, inside the loop or in the
\* flush that follows it.
InboundSend ==
    /\ impl = "run_proxy_process"
    /\ sendOut.some
    /\ \E fate \in SendOutcomes :
          batches' = [batches EXCEPT !.response = Append(@, BatchRecord(sendOut.value, fate))]
    /\ sendOut' = None
    /\ IF rpc = "flushSend"
       THEN /\ rpc' = "wait"
            /\ UNCHANGED pcOut
       ELSE /\ pcOut' = "print"
            /\ UNCHANGED rpc
    /\ UNCHANGED <<curOut, durOut, readOut, toStdout>>
    /\ UNCHANGED <<aborted, evBufIn, evBufOut, sendIn>>
    /\ UNCHANGED <<impl, runResult, launched, waited>>
    /\ UNCHANGED <<envVars, inVars, mapVars, logVars, pipeVars>>
    /\ UNCHANGED serviceVars

\* println!("{}", line), which panics when the proxy's stdout cannot be
\* written, and stdout.flush(), whose Result is discarded.
InboundPrint ==
    /\ impl = "run_proxy_process"
    /\ pcOut = "print"
    /\ \E written \in BOOLEAN :
          IF written
          THEN /\ toStdout' = Append(toStdout, curOut)
               /\ pcOut' = "read"
               /\ UNCHANGED rpc
          ELSE /\ pcOut' = "broke"
               /\ rpc' = "panicked"
               /\ UNCHANGED toStdout
    /\ curOut' = NoValue
    /\ UNCHANGED <<durOut, readOut>>
    /\ UNCHANGED <<impl, runResult, launched, waited>>
    /\ UNCHANGED <<envVars, inVars, mapVars, logVars, evVars, pipeVars>>
    /\ UNCHANGED serviceVars

\* stdin_handle.abort()
AbortStdinTask ==
    /\ impl = "run_proxy_process"
    /\ rpc = "inbound"
    /\ pcOut \in Ended
    /\ aborted' = TRUE
    /\ rpc' = "flush"
    /\ UNCHANGED <<evBufIn, evBufOut, sendIn, sendOut, batches>>
    /\ UNCHANGED <<impl, runResult, launched, waited>>
    /\ UNCHANGED <<envVars, inVars, outVars, mapVars, logVars, pipeVars>>
    /\ UNCHANGED serviceVars

\* event_sender.flush_buffer() after the abort
FlushResponses ==
    /\ impl = "run_proxy_process"
    /\ rpc = "flush"
    /\ LET after == FlushBufferInternal(evBufOut)
       IN  /\ evBufOut' = after.buffer
           /\ sendOut' = after.batch
           /\ rpc' = IF after.batch.some THEN "flushSend" ELSE "wait"
    /\ UNCHANGED <<aborted, evBufIn, sendIn, batches>>
    /\ UNCHANGED <<impl, runResult, launched, waited>>
    /\ UNCHANGED <<envVars, inVars, outVars, mapVars, logVars, pipeVars>>
    /\ UNCHANGED serviceVars

\* let _ = child.wait().await; Ok(())
DiscardChildWait ==
    /\ impl = "run_proxy_process"
    /\ rpc = "wait"
    /\ child = "exited"
    /\ \E wait \in WaitOutcomes : waited' = Some(wait)
    /\ runResult' = Ok("unit")
    /\ rpc' = "done"
    /\ UNCHANGED <<impl, launched>>
    /\ UNCHANGED <<envVars, loopVars, pipeVars>>
    /\ UNCHANGED serviceVars

(***************************************************************************)
(* The supervisor specification: run_proxy_process called on a launch      *)
(* command, for every input on the proxy's stdin and every behaviour of    *)
(* the child.                                                              *)
(***************************************************************************)
InitSupervisorOf(size, stdin_lines, child_lines) ==
    /\ impl = "run_proxy_process"
    /\ rpc = "spawn"
    /\ launched = Some([program |-> "npx", args |-> << >>])
    /\ stdinLeft \in 0..MaxLines
    /\ stdinEnd \in {"closed", "open"}
    /\ stdinSource = stdin_lines
    /\ childSource = child_lines
    /\ outLeft \in 0..(MaxLines - stdinLeft)
    /\ RelayIdle
    /\ filters = << >>
    /\ initialReq = NewProxyRequest("npx", << >>)
    /\ ctxRequest = initialReq
    /\ idx = 1
    /\ observed = << >>
    /\ execResult = Running
    /\ hm = "notCalled"
    /\ hmResult = Running
    /\ BatcherOfSize(size)
    /\ SessionIdle
    /\ StoreIdle

InitSupervisor == InitSupervisorOf(BatchSize, TaskStdinLines, TaskChildLines)

NextSupervisor ==
    \/ Spawn
    \/ ChildExit
    \/ StdinTaskRead
    \/ StdinTaskSend
    \/ StdinTaskWrite
    \/ StdinTaskFlush
    \/ StdinTaskCancelled
    \/ InboundRead
    \/ InboundSend
    \/ InboundPrint
    \/ AbortStdinTask
    \/ FlushResponses
    \/ DiscardChildWait

SpecSupervisor == InitSupervisor /\ [][NextSupervisor]_vars

(***************************************************************************)
(* The same supervisor with EventSenders of every batch size up to         *)
(* MaxBatchSize: the queue logic reads the field batch_size.  The relay    *)
(* looks at a line only for its method, so one content per direction is    *)
(* enough.                                                                 *)
(***************************************************************************)
SpecSupervisorAnySize ==
    /\ \E size \in 1..MaxBatchSize : InitSupervisorOf(size, {"note"}, {"rpc2"})
    /\ [][NextSupervisor]_vars

(***************************************************************************)
(* One EventSender called from both relay directions at once.  Its methods *)
(* take &self; event_buffer and api_client sit behind tokio mutexes.       *)
(* buffer_event and flush_buffer hold the guard of event_buffer from their *)
(* first statement to their return, the send of the batch included;        *)
(* flush_buffer_internal holds the guard of api_client from the drain to   *)
(* its return.  EventSender::new sets batch_size to BatchSize; the queue   *)
(* logic reads the field, and is run here for every size up to             *)
(* MaxBatchSize.                                                           *)
(***************************************************************************)
\* McpEvent::new_request / new_response: the n-th event of a direction; the
\* pair stands for the random id of the event.
McpEventOf(caller, n) == [id |-> <<caller, n>>, direction |-> caller]

\* How many events of a caller have been handed to buffer_event.
EventsOf(caller) ==
    Cardinality({i \in 1..Len(buffered) : buffered[i].direction = caller})

\* The pipeline and the relay while nothing of them runs.
ProxyIdle ==
    /\ filters = << >>
    /\ initialReq = NewProxyRequest("npx", << >>)
    /\ ctxRequest = initialReq
    /\ idx = 1
    /\ observed = << >>
    /\ execResult = Running
    /\ hm = "notCalled"
    /\ hmResult = Running
    /\ impl = "run_proxy_process"
    /\ rpc = "idle"
    /\ launched = None
    /\ stdinLeft = 0
    /\ stdinEnd = "closed"
    /\ stdinSource = StdinLines
    /\ childSource = ChildLines
    /\ outLeft = 0
    /\ RelayIdle

\* A direction calls buffer_event or flush_buffer and comes to
\* self.event_buffer.lock().await.
CallSender(c) ==
    /\ pcCall[c] = "idle"
    /\ callsLeft[c] > 0
    /\ callsLeft' = [callsLeft EXCEPT ![c] = @ - 1]
    /\ \E op \in {"buffer_event", "flush_buffer"} :
          opCall' = [opCall EXCEPT ![c] = op]
    /\ pcCall' = [pcCall EXCEPT ![c] = "lock"]
    /\ UNCHANGED <<batch_size, event_buffer, bufferGuard, clientGuard, batchOf,
                   buffered, sent>>
    /\ UNCHANGED <<pipeVars, relayVars>>
    /\ UNCHANGED <<sessionVars, storeVars>>

\* The call gets the guard of event_buffer and runs up to its next await:
\* buffer_event pushes the event and, at the threshold, drains the queue;
\* flush_buffer drains it.  An empty drain returns at once.
AcquireBuffer(c) ==
    /\ pcCall[c] = "lock"
    /\ bufferGuard = "free"
    /\ bufferGuard' = c
    /\ LET event == McpEventOf(c, EventsOf(c) + 1)
           after == IF opCall[c] = "buffer_event"
                    THEN BufferEvent(event_buffer, event, batch_size)
                    ELSE FlushBufferInternal(event_buffer)
       IN  /\ event_buffer' = after.buffer
           /\ batchOf' = [batchOf EXCEPT ![c] = after.batch]
           /\ pcCall' = [pcCall EXCEPT ![c] =
                            IF after.batch.some THEN "lockClient" ELSE "unlock"]
           /\ buffered' = IF opCall[c] = "buffer_event"
                          THEN Append(buffered, event)
                          ELSE buffered
    /\ UNCHANGED <<batch_size, clientGuard, opCall, callsLeft, sent>>
    /\ UNCHANGED <<pipeVars, relayVars>>
    /\ UNCHANGED <<sessionVars, storeVars>>

\* self.api_client.lock().await
AcquireClient(c) ==
    /\ pcCall[c] = "lockClient"
    /\ clientGuard = "free"
    /\ clientGuard' = c
    /\ pcCall' = [pcCall EXCEPT ![c] = "send"]
    /\ UNCHANGED <<batch_size, event_buffer, bufferGuard, opCall, callsLeft,
                   batchOf, buffered, sent>>
    /\ UNCHANGED <<pipeVars, relayVars>>
    /\ UNCHANGED <<sessionVars, storeVars>>

\* A send that puts the events of a failed batch back at the head of the queue.
SendBatchRequeuesOnFailure(c) ==
    /\ pcCall[c] = "send"
    /\ \E fate \in SendOutcomes :
          /\ sent' = Append(sent, BatchRecord(batchOf[c].value, fate))
          /\ event_buffer' = IF fate = "failed"
                             THEN batchOf[c].value \o event_buffer
                             ELSE event_buffer
    /\ batchOf' = [batchOf EXCEPT ![c] = None]
    /\ clientGuard' = "free"
    /\ pcCall' = [pcCall EXCEPT ![c] = "unlock"]
    /\ UNCHANGED <<batch_size, bufferGuard, opCall, callsLeft, buffered>>
    /\ UNCHANGED <<pipeVars, relayVars>>
    /\ UNCHANGED <<sessionVars, storeVars>>

\* client.send_event_batch(batch).await returns Ok or Err; the error is
\* printed, and flush_buffer_internal returns, dropping the client guard.
SendBatch(c) ==
    /\ pcCall[c] = "send"
    /\ \E fate \in SendOutcomes :
          sent' = Append(sent, BatchRecord(batchOf[c].value, fate))
    /\ batchOf' = [batchOf EXCEPT ![c] = None]
    /\ clientGuard' = "free"
    /\ pcCall' = [pcCall EXCEPT ![c] = "unlock"]
    /\ UNCHANGED <<batch_size, event_buffer, bufferGuard, opCall, callsLeft, buffered>>
    /\ UNCHANGED <<pipeVars, relayVars>>
    /\ UNCHANGED <<sessionVars, storeVars>>

\* buffer_event or flush_buffer returns (), dropping the buffer guard.
ReturnFromSender(c) ==
    /\ pcCall[c] = "unlock"
    /\ bufferGuard' = "free"
    /\ pcCall' = [pcCall EXCEPT ![c] = "idle"]
    /\ opCall' = [opCall EXCEPT ![c] = NoValue]
    /\ UNCHANGED <<batch_size, event_buffer, clientGuard, callsLeft, batchOf,
                   buffered, sent>>
    /\ UNCHANGED <<pipeVars, relayVars>>
    /\ UNCHANGED <<sessionVars, storeVars>>

InitBatcher ==
    /\ batch_size \in 1..MaxBatchSize
    /\ event_buffer = << >>
    /\ bufferGuard = "free"
    /\ clientGuard = "free"
    /\ pcCall = [c \in Callers |-> "idle"]
    /\ opCall = [c \in Callers |-> NoValue]
    /\ callsLeft \in [Callers -> 0..MaxCalls]
    /\ batchOf = [c \in Callers |-> None]
    /\ buffered = << >>
    /\ sent = << >>
    /\ ProxyIdle
    /\ SessionIdle
    /\ StoreIdle

NextBatcher ==
    \/ \E c \in Callers : CallSender(c)
    \/ \E c \in Callers : AcquireBuffer(c)
    \/ \E c \in Callers : AcquireClient(c)
    \/ \E c \in Callers : SendBatch(c)
    \/ \E c \in Callers : ReturnFromSender(c)

SpecBatcher == InitBatcher /\ [][NextBatcher]_vars

(***************************************************************************)
(* The credential manager: get_jwt_token_with_cache (src/handlers.rs) with *)
(* the keyring (src/keyring_token_store.rs) and the token exchange         *)
(* (src/auth.rs), and the part of handle_monitor that resolves the tier    *)
(* and composes the pipeline.  The keyring outlives a run of km: a call    *)
(* finds in it what an earlier call has saved.                             *)
(***************************************************************************)
\* claims.tier of a token.
TierClaims == {None, Some("free"), Some("pro")}

\* refresh_token of a token.
RefreshTokens == {None, Some("refresh")}

\* --override-tier.
OverrideTiers == {None, Some("free"), Some("enterprise")}

\* expiresIn of an AuthResponse.
ExpiresIn == {60, 62}

\* JwtToken { token, expires_at, claims, refresh_token }.
JwtToken(token, expires_at, tier, refresh_token) ==
    [token |-> token, expires_at |-> expires_at, claims |-> [tier |-> tier],
     refresh_token |-> refresh_token]

\* serde_json::to_string(&JwtToken): refresh_token is skipped when it is None.
Serialize(token) ==
    IF token.refresh_token = None
    THEN [token |-> token.token, expires_at |-> token.expires_at, claims |-> token.claims]
    ELSE [token |-> token.token, expires_at |-> token.expires_at, claims |-> token.claims,
          refresh_token |-> token.refresh_token.value]

\* A keyring entry that is not the JSON of a JwtToken.
Garbage == [garbage |-> TRUE]

\* serde_json::from_str::<JwtToken>: a missing refresh_token reads as None.
Deserialize(json) ==
    IF "token" \notin DOMAIN json
    THEN Err("Failed to deserialize access token")
    ELSE Ok(JwtToken(json.token, json.expires_at, json.claims.tier,
                     IF "refresh_token" \in DOMAIN json
                     THEN Some(json.refresh_token)
                     ELSE None))

\* The seconds is_token_expired adds to now.
ExpiryBuffer == 60

\* An expiry check with a buffer of two minutes.
IsTokenExpiredWiderBuffer(token, unixNow) ==
    token.expires_at <= unixNow + 2 * ExpiryBuffer

\* An expiry check that lets a token pass in the second the buffer ends.
IsTokenExpiredStrict(token, unixNow) == token.expires_at < unixNow + ExpiryBuffer

\* AuthClient::is_token_expired, with unixNow the reading of the clock.
IsTokenExpired(token, unixNow) == token.expires_at <= unixNow + ExpiryBuffer

\* What the exchange endpoint can do: fail (network error, non-2xx status,
\* unparsable body) or answer with a jwt, its life time and a refresh token.
\* A jwt whose claims do not parse has the default claims (tier None).
ExchangeOutcomes ==
    [ok : {FALSE}, error : {"Failed to send auth request", "Auth failed with status",
                            "Failed to parse auth response"}]
        \cup [ok : {TRUE}, expires_in : ExpiresIn, tier : TierClaims,
              refresh_token : RefreshTokens]

\* AuthClient::exchange_for_jwt; jwt is the token string the endpoint issues
\* (the number of the call stands for it: no two answers carry the same).
ExchangeForJwt(outcome, unixNow, jwt) ==
    IF outcome.ok
    THEN Ok(JwtToken(jwt, unixNow + outcome.expires_in, outcome.tier, outcome.refresh_token))
    ELSE Err(outcome.error)

\* What the keyring can do with the writes of save_tokens.
SaveOutcomes == {"saved", "accessFails", "refreshFails"}

\* A save that writes the refresh entry and forgets the access entry.
SaveTokensSkipsAccessToken(access, refresh, access_token, refresh_token, outcome) ==
    IF outcome = "accessFails"
    THEN [access |-> access, refresh |-> refresh,
          result |-> Err("Failed to save access token to keyring")]
    ELSE IF refresh_token.some /\ refresh_token.value # ""
         THEN IF outcome = "refreshFails"
              THEN [access |-> access, refresh |-> refresh,
                    result |-> Err("Failed to save refresh token to keyring")]
              ELSE [access |-> access, refresh |-> Some(refresh_token.value),
                    result |-> Ok("unit")]
         ELSE [access |-> access, refresh |-> refresh, result |-> Ok("unit")]

\* KeyringTokenStore::save_tokens: the access entry is written first; the
\* refresh entry only for a refresh token that is not empty.
SaveTokens(access, refresh, access_token, refresh_token, outcome) ==
    IF outcome = "accessFails"
    THEN [access |-> access, refresh |-> refresh,
          result |-> Err("Failed to save access token to keyring")]
    ELSE IF refresh_token.some /\ refresh_token.value # ""
         THEN IF outcome = "refreshFails"
              THEN [access |-> Some(Serialize(access_token)), refresh |-> refresh,
                    result |-> Err("Failed to save refresh token to keyring")]
              ELSE [access |-> Some(Serialize(access_token)),
                    refresh |-> Some(refresh_token.value), result |-> Ok("unit")]
         ELSE [access |-> Some(Serialize(access_token)), refresh |-> refresh,
               result |-> Ok("unit")]

\* The record of a call that returns.
CallRecord ==
    [initFailed |-> cur.initFailed, exchanges |-> cur.exchanges,
     exchangeFailed |-> cur.exchangeFailed, writes |-> cur.writes,
     saveFailed |-> cur.saveFailed, result |-> authResult.value]

\* A direct call of get_jwt_token_with_cache (an earlier run of km, a test).
AuthStartDirect ==
    /\ hm = "notCalled"
    /\ pcAuth = "idle"
    /\ sessions < MaxSessions
    /\ sessions' = sessions + 1
    /\ pcAuth' = "new"
    /\ authCaller' = "direct"
    /\ cur' = NoCall
    /\ authResult' = Running
    /\ newToken' = None
    /\ UNCHANGED <<keyringAvailable, accessEntry, refreshEntry, clock, prevCall, local_only, override_tier, user_tier, jwt_token>>
    /\ UNCHANGED <<pipeVars, relayVars, batcherVars, storeVars>>

\* KeyringTokenStore::new(): an error (CI, no keyring) makes the call return
\* None at once.
AuthNewStore ==
    /\ pcAuth = "new"
    /\ IF keyringAvailable
       THEN /\ pcAuth' = "exists"
            /\ UNCHANGED <<authResult, cur>>
       ELSE /\ pcAuth' = "done"
            /\ authResult' = Ok(None)
            /\ cur' = [cur EXCEPT !.initFailed = TRUE]
    /\ UNCHANGED <<keyringAvailable, accessEntry, refreshEntry, clock, authCaller,
                   newToken, prevCall, sessions, local_only, override_tier,
                   user_tier, jwt_token>>
    /\ UNCHANGED <<pipeVars, relayVars, batcherVars, storeVars>>

\* token_store.token_exists(): get_password().is_ok().
AuthTokenExists ==
    /\ pcAuth = "exists"
    /\ \E readOk \in (IF accessEntry.some THEN BOOLEAN ELSE {TRUE}) :
          /\ pcAuth' = IF readOk /\ accessEntry.some THEN "load" ELSE "exchange"
          /\ cur' = [cur EXCEPT !.readFailed = @ \/ ~readOk]
    /\ UNCHANGED <<keyringAvailable, accessEntry, refreshEntry, clock, authCaller,
                   newToken, authResult, prevCall, sessions, local_only, override_tier,
                   user_tier, jwt_token>>
    /\ UNCHANGED <<pipeVars, relayVars, batcherVars, storeVars>>

\* token_store.load_access_token() and the expiry check: a token that is
\* not expired is returned, everything else goes on to the exchange.
AuthLoad ==
    /\ pcAuth = "load"
    /\ \E readOk \in BOOLEAN :
          LET loaded == IF readOk
                        THEN Deserialize(accessEntry.value)
                        ELSE Err("Failed to retrieve access token from keyring")
          IN  IF IsOk(loaded)
              THEN /\ cur' = [cur EXCEPT !.checkedAt = Some(clock)]
                   /\ IF ~IsTokenExpired(loaded.value, clock)
                      THEN /\ authResult' = Ok(Some(loaded.value))
                           /\ pcAuth' = "done"
                      ELSE /\ pcAuth' = "exchange"
                           /\ UNCHANGED authResult
              ELSE /\ cur' = [cur EXCEPT !.readFailed = @ \/ ~readOk]
                   /\ pcAuth' = "exchange"
                   /\ UNCHANGED authResult
    /\ UNCHANGED <<keyringAvailable, accessEntry, refreshEntry, clock, authCaller,
                   newToken, prevCall, sessions, local_only, override_tier,
                   user_tier, jwt_token>>
    /\ UNCHANGED <<pipeVars, relayVars, batcherVars, storeVars>>

\* auth_client.exchange_for_jwt().await: an error makes the call return None.
AuthExchange ==
    /\ pcAuth = "exchange"
    /\ \E outcome \in ExchangeOutcomes :
          LET exchanged == ExchangeForJwt(outcome, clock, sessions)
          IN  IF IsOk(exchanged)
              THEN /\ newToken' = Some(exchanged.value)
                   /\ pcAuth' = "save"
                   /\ cur' = [cur EXCEPT !.exchanges = @ + 1]
                   /\ UNCHANGED authResult
              ELSE /\ authResult' = Ok(None)
                   /\ pcAuth' = "done"
                   /\ cur' = [cur EXCEPT !.exchanges = @ + 1, !.exchangeFailed = TRUE]
                   /\ UNCHANGED newToken
    /\ UNCHANGED <<keyringAvailable, accessEntry, refreshEntry, clock, authCaller,
                   prevCall, sessions, local_only, override_tier, user_tier, jwt_token>>
    /\ UNCHANGED <<pipeVars, relayVars, batcherVars, storeVars>>

\* A save whose failure makes the call return None.
AuthSaveDiscardsOnFailure ==
    /\ pcAuth = "save"
    /\ \E outcome \in SaveOutcomes :
          LET saved == SaveTokens(accessEntry, refreshEntry, newToken.value,
                                  newToken.value.refresh_token, outcome)
          IN  /\ accessEntry' = saved.access
              /\ refreshEntry' = saved.refresh
              /\ cur' = [cur EXCEPT !.writes = @ + 1, !.saveFailed = IsErr(saved.result)]
              /\ authResult' = IF IsErr(saved.result) THEN Ok(None) ELSE Ok(newToken)
    /\ pcAuth' = "done"
    /\ UNCHANGED <<keyringAvailable, clock, authCaller, newToken, prevCall, sessions,
                   local_only,
                   override_tier, user_tier, jwt_token>>
    /\ UNCHANGED <<pipeVars, relayVars, batcherVars, storeVars>>

\* token_store.save_tokens(&new_token, refresh_token): its error is only
\* logged, and Some(new_token) is returned.
AuthSave ==
    /\ pcAuth = "save"
    /\ \E outcome \in SaveOutcomes :
          LET saved == SaveTokens(accessEntry, refreshEntry, newToken.value,
                                  newToken.value.refresh_token, outcome)
          IN  /\ accessEntry' = saved.access
              /\ refreshEntry' = saved.refresh
              /\ cur' = [cur EXCEPT !.writes = @ + 1, !.saveFailed = IsErr(saved.result)]
    /\ authResult' = Ok(newToken)
    /\ pcAuth' = "done"
    /\ UNCHANGED <<keyringAvailable, clock, authCaller, newToken, prevCall, sessions,
                   local_only,
                   override_tier, user_tier, jwt_token>>
    /\ UNCHANGED <<pipeVars, relayVars, batcherVars, storeVars>>

\* The direct call returns.
AuthReturnDirect ==
    /\ pcAuth = "done"
    /\ authCaller = "direct"
    /\ prevCall' = CallRecord
    /\ pcAuth' = "idle"
    /\ authCaller' = NoValue
    /\ cur' = NoCall
    /\ authResult' = Running
    /\ newToken' = None
    /\ UNCHANGED <<keyringAvailable, accessEntry, refreshEntry, clock, sessions, local_only, override_tier, user_tier, jwt_token>>
    /\ UNCHANGED <<pipeVars, relayVars, batcherVars, storeVars>>

\* Time passes between the runs of km and while it waits for the exchange
\* endpoint.
Tick ==
    /\ hm \in {"notCalled", "auth"}
    /\ pcAuth \in {"idle", "exchange"}
    /\ clock < Clock0 + MaxTicks
    /\ clock' = clock + 1
    /\ UNCHANGED <<keyringAvailable, accessEntry, refreshEntry, pcAuth, authCaller,
                   newToken, authResult, cur, prevCall, sessions, local_only, override_tier,
                   user_tier, jwt_token>>
    /\ UNCHANGED <<pipeVars, relayVars, batcherVars, storeVars>>

\* The threshold handle_monitor builds the RiskAnalysisFilter with: 0.8.
PaidTierThreshold == 80

\* What the log file, the telemetry endpoint and the risk endpoint do in a
\* run of handle_monitor.
Backends == [log : LogOutcomes, telemetry : TelemetryEndpoints, risk : RiskEndpoints]

\* The backends of the runs that start with the authentication: the log is
\* written, the telemetry endpoint accepts the event, and the risk endpoint
\* fails, or lets the command pass, or has it rewritten, or has it blocked.
SessionBackends ==
    [log : {[kind |-> "written"]},
     telemetry : {Status(200, Unparsable)},
     risk : {Status(500, Unparsable),
             Status(200, [risk_score |-> 80, suggested_transform |-> None]),
             Status(200, [risk_score |-> 79,
                          suggested_transform |->
                              Some([command |-> Some("safe-npx"), args |-> None])]),
             Status(200, [risk_score |-> 81, suggested_transform |-> None])}]

\* A tier resolution in which the override also counts without a token.
ResolveTierOverrideFirst(jwt_token_option, override) ==
    IF override.some
    THEN [user_tier |-> override.value, jwt_token |-> jwt_token_option]
    ELSE IF jwt_token_option.some /\ jwt_token_option.value.claims.tier.some
         THEN [user_tier |-> jwt_token_option.value.claims.tier.value,
               jwt_token |-> jwt_token_option]
         ELSE [user_tier |-> "free", jwt_token |-> jwt_token_option]

\* A tier resolution in which the tier claim of the token beats the override.
ResolveTierClaimFirst(jwt_token_option, override) ==
    IF jwt_token_option.some
    THEN [user_tier |-> IF jwt_token_option.value.claims.tier.some
                        THEN jwt_token_option.value.claims.tier.value
                        ELSE IF override.some THEN override.value ELSE "free",
          jwt_token |-> jwt_token_option]
    ELSE [user_tier |-> "free", jwt_token |-> None]

\* handle_monitor: let (user_tier, jwt_token) = ...
ResolveTier(jwt_token_option, override) ==
    IF jwt_token_option.some
    THEN [user_tier |-> IF override.some
                        THEN override.value
                        ELSE IF jwt_token_option.value.claims.tier.some
                             THEN jwt_token_option.value.claims.tier.value
                             ELSE "free",
          jwt_token |-> jwt_token_option]
    ELSE [user_tier |-> "free", jwt_token |-> None]

\* A composition that leaves the telemetry out for a paid tier.
ComposePipelineWithoutTelemetry(localOnly, token, tier, backends) ==
    IF localOnly \/ ~token.some
    THEN <<LocalLoggerFilter(MetadataLog(LogFile), backends.log)>>
    ELSE IF tier # "free"
         THEN <<LocalLoggerFilter(LogFile, backends.log),
                RiskAnalysisFilter(PaidTierThreshold, backends.risk)>>
         ELSE <<LocalLoggerFilter(LogFile, backends.log), EventSenderFilter(backends.telemetry)>>

\* handle_monitor: let pipeline = ...
ComposePipeline(localOnly, token, tier, backends) ==
    IF localOnly \/ ~token.some
    THEN <<LocalLoggerFilter(MetadataLog(LogFile), backends.log)>>
    ELSE IF tier # "free"
         THEN <<LocalLoggerFilter(LogFile, backends.log), EventSenderFilter(backends.telemetry),
                RiskAnalysisFilter(PaidTierThreshold, backends.risk)>>
         ELSE <<LocalLoggerFilter(LogFile, backends.log), EventSenderFilter(backends.telemetry)>>

\* A handler that authenticates also under --local-only.
MonitorStartAuthenticatesLocalOnly ==
    /\ hm = "notCalled"
    /\ pcAuth = "idle"
    /\ sessions < MaxSessions
    /\ \E noCommand \in BOOLEAN, localOnly \in BOOLEAN, configLoads \in BOOLEAN :
          IF noCommand
          THEN /\ hm' = "done"
               /\ hmResult' = Err(<<"No command provided to proxy">>)
               /\ UNCHANGED <<local_only, pcAuth, authCaller, cur, authResult,
                              newToken, sessions>>
          ELSE /\ local_only' = localOnly
               /\ UNCHANGED hmResult
               /\ IF ~configLoads
                  THEN /\ hm' = "skipAuth"
                       /\ UNCHANGED <<pcAuth, authCaller, cur, authResult, newToken,
                                      sessions>>
                  ELSE /\ hm' = "auth"
                       /\ sessions' = sessions + 1
                       /\ pcAuth' = "new"
                       /\ authCaller' = "handle_monitor"
                       /\ cur' = NoCall
                       /\ authResult' = Running
                       /\ newToken' = None
    /\ UNCHANGED <<keyringAvailable, accessEntry, refreshEntry, clock, prevCall, override_tier, user_tier, jwt_token>>
    /\ UNCHANGED <<filters, ctxRequest, initialReq, idx, observed, execResult>>
    /\ UNCHANGED <<relayVars, batcherVars, storeVars>>

\* handle_monitor up to the call of get_jwt_token_with_cache: no command is
\* an error; --local-only and a configuration that does not load skip the
\* authentication.  override_tier, which is not read before the tier is
\* resolved, gets its value there.
MonitorStart ==
    /\ hm = "notCalled"
    /\ pcAuth = "idle"
    /\ sessions < MaxSessions
    /\ \E noCommand \in BOOLEAN, localOnly \in BOOLEAN, configLoads \in BOOLEAN :
          IF noCommand
          THEN /\ hm' = "done"
               /\ hmResult' = Err(<<"No command provided to proxy">>)
               /\ UNCHANGED <<local_only, pcAuth, authCaller, cur, authResult,
                              newToken, sessions>>
          ELSE /\ local_only' = localOnly
               /\ UNCHANGED hmResult
               /\ IF localOnly \/ ~configLoads
                  THEN /\ hm' = "skipAuth"
                       /\ UNCHANGED <<pcAuth, authCaller, cur, authResult, newToken,
                                      sessions>>
                  ELSE /\ hm' = "auth"
                       /\ sessions' = sessions + 1
                       /\ pcAuth' = "new"
                       /\ authCaller' = "handle_monitor"
                       /\ cur' = NoCall
                       /\ authResult' = Running
                       /\ newToken' = None
    /\ UNCHANGED <<keyringAvailable, accessEntry, refreshEntry, clock, prevCall, override_tier, user_tier, jwt_token>>
    /\ UNCHANGED <<filters, ctxRequest, initialReq, idx, observed, execResult>>
    /\ UNCHANGED <<relayVars, batcherVars, storeVars>>

\* handle_monitor from the return of get_jwt_token_with_cache to the call of
\* pipeline.execute: the tier, the context and the pipeline.
MonitorCompose ==
    /\ hm \in {"auth", "skipAuth"}
    /\ hm = "auth" => pcAuth = "done"
    /\ \E override \in OverrideTiers, backends \in SessionBackends :
          LET jwt_token_option == IF hm = "auth" THEN authResult.value ELSE None
              resolved == ResolveTier(jwt_token_option, override)
          IN  /\ override_tier' = override
              /\ user_tier' = resolved.user_tier
              /\ jwt_token' = resolved.jwt_token
              /\ filters' = ComposePipeline(local_only, resolved.jwt_token,
                                            resolved.user_tier, backends)
    /\ IF hm = "auth"
       THEN /\ prevCall' = CallRecord
            /\ pcAuth' = "idle"
            /\ cur' = NoCall
            /\ authResult' = Running
            /\ newToken' = None
       ELSE UNCHANGED <<prevCall, pcAuth, cur, authResult, newToken>>
    /\ UNCHANGED authCaller
    /\ hm' = "execute"
    /\ UNCHANGED sessions
    /\ UNCHANGED <<keyringAvailable, accessEntry, refreshEntry, clock, local_only>>
    /\ UNCHANGED <<ctxRequest, initialReq, idx, observed, execResult, hmResult>>
    /\ UNCHANGED <<relayVars, batcherVars, storeVars>>

\* What the keyring holds when km starts: nothing, something that is not a
\* token, or the token an earlier run has saved.
InitialEntries ==
    {None, Some(Garbage)}
        \cup {Some(Serialize(JwtToken(0, Clock0 + e, None, None))) : e \in ExpiresIn}

InitSession ==
    /\ keyringAvailable \in BOOLEAN
    /\ accessEntry \in InitialEntries
    /\ refreshEntry = None
    /\ clock = Clock0
    /\ pcAuth = "idle"
    /\ authCaller = NoValue
    /\ newToken = None
    /\ authResult = Running
    /\ cur = NoCall
    /\ prevCall = NoRecord
    /\ sessions = 0
    /\ local_only = FALSE
    /\ override_tier = None
    /\ user_tier = NoValue
    /\ jwt_token = None
    /\ ProxyIdle
    /\ BatcherIdle
    /\ StoreIdle

NextSession ==
    \/ AuthStartDirect
    \/ AuthNewStore
    \/ AuthTokenExists
    \/ AuthLoad
    \/ AuthExchange
    \/ AuthSave
    \/ AuthReturnDirect
    \/ Tick
    \/ MonitorStart
    \/ MonitorCompose
    \/ ExecuteCheck
    \/ ExecuteReturn
    \/ MonitorDispatch
    \/ Spawn
    \/ MonitorReturn

SpecSession == InitSession /\ [][NextSession]_vars

(***************************************************************************)
(* The filters specification: FilterPipeline::execute and the rest of      *)
(* handle_monitor on every pipeline handle_monitor can compose, for every  *)
(* behaviour of the log file and of the two endpoints and for every        *)
(* request a context can carry.                                            *)
(***************************************************************************)
ComposedPipelines ==
    {ComposePipeline(localOnly, token, tier, backends) :
        localOnly \in BOOLEAN,
        token \in {None, Some(JwtToken(1, Clock0 + 62, None, None))},
        tier \in {"free", "pro"},
        backends \in Backends}

InitFilters ==
    /\ filters \in ComposedPipelines
    /\ initialReq \in ProxyRequest
    /\ ctxRequest = initialReq
    /\ idx = 1
    /\ observed = << >>
    /\ execResult = Running
    /\ hm = "execute"
    /\ hmResult = Running
    /\ impl = "run_proxy"
    /\ rpc = "idle"
    /\ launched = None
    /\ stdinLeft = 0
    /\ stdinEnd = "closed"
    /\ stdinSource = StdinLines
    /\ childSource = ChildLines
    /\ outLeft = 0
    /\ RelayIdle
    /\ ServicesIdle

SpecFilters == InitFilters /\ [][NextPipeline]_vars

(***************************************************************************)
(* The tokens specification: KeyringTokenStore, TokenCache and             *)
(* AuthClient::is_token_expired called one call at a time, in any order,   *)
(* as handle_clear_logs, main and the callers of the library make them.    *)
(***************************************************************************)

\* The session variables a direct call of a token function leaves alone.
sessionRest == <<keyringAvailable, pcAuth, authCaller, newToken, authResult, cur,
                 prevCall, sessions, local_only, override_tier, user_tier, jwt_token>>

\* The tokens the direct calls save: one without and one with a refresh
\* token of its own.
SavedTokens ==
    {JwtToken(1, Clock0 + 62, None, None), JwtToken(2, Clock0 + 62, None, Some("refresh"))}

\* The refresh_token argument of save_tokens: Option<&str>.
RefreshArguments == {None, Some(""), Some("refresh"), Some("new_refresh")}

\* The tokens is_token_expired is asked about: expired long ago, expired a
\* second before the first reading of the clock, and expiring around the
\* buffer of 60 seconds.
ExpiryTokens ==
    {JwtToken(1, at, None, None) :
        at \in {0, Clock0 - 1, Clock0 + 59, Clock0 + 60, Clock0 + 61, Clock0 + 62}}

\* Entry::delete_credential: with the keyring working, the credential is
\* removed, and NoEntry is the error when there is none; works = FALSE is any
\* other error of the keyring, which removes nothing.
DeleteCredential(entry, works) ==
    IF ~works
    THEN [entry |-> entry, result |-> Err("PlatformFailure")]
    ELSE IF entry.some
         THEN [entry |-> None, result |-> Ok("unit")]
         ELSE [entry |-> None, result |-> Err("NoEntry")]

\* A clear_tokens that returns the NoEntry of a deletion as its error.
ClearTokensFailsOnNoEntry(access, refresh, accessWorks, refreshWorks) ==
    LET a == DeleteCredential(access, accessWorks)
        r == DeleteCredential(refresh, refreshWorks)
    IN  IF IsErr(a.result)
        THEN [access |-> a.entry, refresh |-> refresh,
              result |-> Err("Failed to clear access token")]
        ELSE IF IsErr(r.result)
             THEN [access |-> a.entry, refresh |-> r.entry,
                   result |-> Err("Failed to clear refresh token")]
             ELSE [access |-> a.entry, refresh |-> r.entry, result |-> Ok("unit")]

\* KeyringTokenStore::clear_tokens: the access entry is deleted, then the
\* refresh entry; NoEntry is passed over, any other error is returned at once.
ClearTokens(access, refresh, accessWorks, refreshWorks) ==
    LET a == DeleteCredential(access, accessWorks)
        r == DeleteCredential(refresh, refreshWorks)
    IN  IF IsErr(a.result) /\ a.result.error # "NoEntry"
        THEN [access |-> a.entry, refresh |-> refresh,
              result |-> Err("Failed to clear access token")]
        ELSE IF IsErr(r.result) /\ r.result.error # "NoEntry"
             THEN [access |-> a.entry, refresh |-> r.entry,
                   result |-> Err("Failed to clear refresh token")]
             ELSE [access |-> a.entry, refresh |-> r.entry, result |-> Ok("unit")]

\* KeyringTokenStore::token_exists: get_password().is_ok().
TokenExists(access, readWorks) == readWorks /\ access.some

\* KeyringTokenStore::load_refresh_token.
LoadRefreshToken(refresh, readWorks) ==
    IF readWorks THEN Ok(refresh) ELSE Err("Failed to retrieve refresh token")

\* TokenCache::save_token: the file is written with the JSON of the token.
SaveToken(file, token, written) ==
    IF written
    THEN [file |-> Some(Serialize(token)), result |-> Ok("unit")]
    ELSE [file |-> file, result |-> Err("Failed to write token cache file")]

\* TokenCache::clear_cache: the file is removed only when it exists.
ClearCache(file, removed) ==
    IF file.some
    THEN IF removed
         THEN [file |-> None, result |-> Ok("unit")]
         ELSE [file |-> file, result |-> Err("Failed to remove token cache file")]
    ELSE [file |-> file, result |-> Ok("unit")]

\* TokenCache::cache_exists.
CacheExists(file) == file.some

\* A call of token_store.save_tokens(&token, refresh_token).
StoreSaveTokens ==
    /\ \E token \in SavedTokens, refresh_token \in RefreshArguments, outcome \in SaveOutcomes :
          LET saved == SaveTokens(accessEntry, refreshEntry, token, refresh_token, outcome)
          IN  /\ accessEntry' = saved.access
              /\ refreshEntry' = saved.refresh
              /\ storeCall' = [op |-> "save_tokens", token |-> token,
                               refresh_token |-> refresh_token, result |-> saved.result]
    /\ clearsInRow' = [clearsInRow EXCEPT !.keyring = 0]
    /\ UNCHANGED <<sessionRest, clock, cacheFile>>
    /\ UNCHANGED <<pipeVars, relayVars, batcherVars>>

\* A call of token_store.clear_tokens(), as handle_clear_logs makes it.
StoreClearTokens ==
    /\ clearsInRow.keyring < MaxClears
    /\ \E accessWorks \in BOOLEAN, refreshWorks \in BOOLEAN :
          LET cleared == ClearTokens(accessEntry, refreshEntry, accessWorks, refreshWorks)
              failed  == ~accessWorks \/ ~refreshWorks
          IN  /\ accessEntry' = cleared.access
              /\ refreshEntry' = cleared.refresh
              /\ storeCall' = [op |-> "clear_tokens", storeFailed |-> failed,
                               result |-> cleared.result]
              /\ clearsInRow' = [clearsInRow EXCEPT !.keyring = IF failed THEN 0 ELSE @ + 1]
    /\ UNCHANGED <<sessionRest, clock, cacheFile>>
    /\ UNCHANGED <<pipeVars, relayVars, batcherVars>>

\* A call of token_store.token_exists().
StoreTokenExists ==
    /\ \E readWorks \in BOOLEAN :
          storeCall' = [op |-> "token_exists",
                        result |-> Ok(TokenExists(accessEntry, readWorks))]
    /\ UNCHANGED <<sessionRest, clock, accessEntry, refreshEntry, cacheFile, clearsInRow>>
    /\ UNCHANGED <<pipeVars, relayVars, batcherVars>>

\* A call of token_store.load_refresh_token().
StoreLoadRefreshToken ==
    /\ \E readWorks \in BOOLEAN :
          storeCall' = [op |-> "load_refresh_token",
                        result |-> LoadRefreshToken(refreshEntry, readWorks)]
    /\ UNCHANGED <<sessionRest, clock, accessEntry, refreshEntry, cacheFile, clearsInRow>>
    /\ UNCHANGED <<pipeVars, relayVars, batcherVars>>

\* A call of token_cache.save_token(&token).
CacheSaveToken ==
    /\ \E token \in SavedTokens, written \in BOOLEAN :
          LET saved == SaveToken(cacheFile, token, written)
          IN  /\ cacheFile' = saved.file
              /\ storeCall' = [op |-> "save_token", token |-> token, result |-> saved.result]
    /\ clearsInRow' = [clearsInRow EXCEPT !.file = 0]
    /\ UNCHANGED <<sessionRest, clock, accessEntry, refreshEntry>>
    /\ UNCHANGED <<pipeVars, relayVars, batcherVars>>

\* A call of token_cache.clear_cache(), as main makes it.
CacheClearCache ==
    /\ clearsInRow.file < MaxClears
    /\ \E removed \in BOOLEAN :
          LET cleared == ClearCache(cacheFile, removed)
              failed  == ~removed
          IN  /\ cacheFile' = cleared.file
              /\ storeCall' = [op |-> "clear_cache", storeFailed |-> failed,
                               result |-> cleared.result]
              /\ clearsInRow' = [clearsInRow EXCEPT !.file = IF failed THEN 0 ELSE @ + 1]
    /\ UNCHANGED <<sessionRest, clock, accessEntry, refreshEntry>>
    /\ UNCHANGED <<pipeVars, relayVars, batcherVars>>

\* A call of token_cache.cache_exists().
CacheCacheExists ==
    /\ storeCall' = [op |-> "cache_exists", result |-> Ok(CacheExists(cacheFile))]
    /\ UNCHANGED <<sessionRest, clock, accessEntry, refreshEntry, cacheFile, clearsInRow>>
    /\ UNCHANGED <<pipeVars, relayVars, batcherVars>>

\* A call of AuthClient::is_token_expired(&token); now is what
\* SystemTime::now() reads.
CallIsTokenExpired ==
    /\ \E token \in ExpiryTokens :
          storeCall' = [op |-> "is_token_expired", token |-> token, now |-> clock,
                        result |-> Ok(IsTokenExpired(token, clock))]
    /\ UNCHANGED <<sessionRest, clock, accessEntry, refreshEntry, cacheFile, clearsInRow>>
    /\ UNCHANGED <<pipeVars, relayVars, batcherVars>>

\* The stores before the calls: a keyring that is empty or holds an entry
\* that is not a token, no cache file, and no call of km under way.
InitTokens ==
    /\ keyringAvailable = TRUE
    /\ accessEntry \in InitialEntries
    /\ refreshEntry = None
    /\ clock = Clock0
    /\ pcAuth = "idle"
    /\ authCaller = NoValue
    /\ newToken = None
    /\ authResult = Running
    /\ cur = NoCall
    /\ prevCall = NoRecord
    /\ sessions = 0
    /\ local_only = FALSE
    /\ override_tier = None
    /\ user_tier = NoValue
    /\ jwt_token = None
    /\ ProxyIdle
    /\ BatcherIdle
    /\ StoreIdle

NextTokens ==
    \/ StoreSaveTokens
    \/ StoreClearTokens
    \/ StoreTokenExists
    \/ StoreLoadRefreshToken
    \/ CacheSaveToken
    \/ CacheClearCache
    \/ CacheCacheExists
    \/ CallIsTokenExpired
    \/ Tick

SpecTokens == InitTokens /\ [][NextTokens]_vars

(***************************************************************************)
(* Properties of the filter pipeline (SpecPipeline).                       *)
(***************************************************************************)

\* The decision the filter of the i-th recorded call of check returned.
DecisionOfCall(i) == Check(filters[observed[i][1]], observed[i][2])

\* The request in effect after the first n filters of fs, started on req,
\* when none of them aborts: the one left by the last Transform.
RECURSIVE Threaded(_, _, _)
Threaded(fs, req, n) ==
    IF n = 0
    THEN req
    ELSE LET prev == Threaded(fs, req, n - 1)
             d    == Check(fs[n], prev)
         IN  IF d.kind = "Transform" THEN d.new_request ELSE prev

\* C1: a Block returned by the filter at position k makes execute return an
\* error, and no check of a filter at a position greater than k is invoked.
C1_BlockStopsPipeline ==
    \A i \in 1..Len(observed) :
        DecisionOfCall(i).kind = "Block" =>
            /\ i = Len(observed)
            /\ \A j \in 1..Len(observed) : observed[j][1] <= observed[i][1]
            /\ IsErr(execResult)

C1_Witness ==
    /\ Len(observed) >= 2
    /\ DecisionOfCall(Len(observed)).kind = "Block"
    /\ observed[Len(observed)][1] < Len(filters)
    /\ hm = "done"

\* C2: every filter is checked against the request left by the last
\* Transform before it (the initial request if there is none), execute
\* returns the request left by the last Transform of the list, and that is
\* the command handle_monitor launches.
C2_TransformPropagates ==
    /\ \A i \in 1..Len(observed) :
          /\ observed[i][1] = i
          /\ observed[i][2] = Threaded(filters, initialReq, i - 1)
    /\ IsOk(execResult) =>
          execResult.value = Threaded(filters, initialReq, Len(filters))
    /\ launched.some =>
          /\ launched.value.program = Threaded(filters, initialReq, Len(filters)).command
          /\ launched.value.args = Threaded(filters, initialReq, Len(filters)).args

C2_Witness ==
    /\ launched.some
    /\ Len(observed) = 3
    /\ observed[1][2] = initialReq
    /\ DecisionOfCall(1).kind = "Transform"
    /\ observed[2][2] # initialReq
    /\ DecisionOfCall(2).kind = "Transform"
    /\ observed[3][2] # observed[2][2]
    /\ launched.value.program # initialReq.command

\* C3: when the pipeline ends with an error, the child is never spawned and
\* no relay loop starts, and handle_monitor returns an error that carries
\* the name of the filter and the reason.
C3_PolicyErrorNeverLaunches ==
    IsErr(execResult) =>
        /\ child = "none"
        /\ rpc = "idle"
        /\ ~launched.some
        /\ pcIn = "notStarted"
        /\ pcOut = "notStarted"
        /\ hm \in {"executed", "done"}
        /\ hm = "done" =>
              /\ IsErr(hmResult)
              /\ hmResult.error[1] = "Request blocked"
              /\ hmResult.error[2][2] = filters[idx].name
              /\ \/ /\ DecisionOfCall(Len(observed)).kind = "Block"
                    /\ hmResult.error[2][3] = DecisionOfCall(Len(observed)).reason
                 \/ /\ DecisionOfCall(Len(observed)).kind = "Err"
                    /\ hmResult.error[2][4] = DecisionOfCall(Len(observed)).error

C3_Witness ==
    /\ hm = "done"
    /\ IsErr(hmResult)
    /\ IsErr(execResult)
    /\ Len(observed) >= 2

\* A filter that lets every request through: its check returns Allow, or it
\* fails while its is_blocking flag is false.
Benign(filter) ==
    \A r \in ProxyRequest :
        \/ Check(filter, r).kind = "Allow"
        \/ Check(filter, r).kind = "Err" /\ ~IsBlocking(filter)

\* C4: in a pipeline of filters that return Allow or fail while not
\* blocking, execute invokes every filter exactly once in list order,
\* propagates no error and returns the initial request unchanged.
C4_NonBlockingResilience ==
    (\A k \in 1..Len(filters) : Benign(filters[k])) =>
        /\ ~IsErr(execResult)
        /\ \A i \in 1..Len(observed) : observed[i] = <<i, initialReq>>
        /\ IsOk(execResult) =>
              /\ execResult.value = initialReq
              /\ Len(observed) = Len(filters)

C4_Witness ==
    /\ \A k \in 1..Len(filters) : Benign(filters[k])
    /\ Len(filters) = MaxFilters
    /\ \A k \in 1..Len(filters) : filters[k].behaviour = "fail"
    /\ IsOk(execResult)
    /\ launched.some

\* C5: when the check of a filter whose is_blocking is true (the default of
\* the trait) fails, execute aborts with an error that names that filter,
\* invokes no later filter and returns no request.
C5_BlockingFailureAborts ==
    \A i \in 1..Len(observed) :
        (/\ DecisionOfCall(i).kind = "Err"
         /\ filters[observed[i][1]].is_blocking = "default") =>
            /\ i = Len(observed)
            /\ IsErr(execResult)
            /\ execResult.error =
                  <<"Filter", filters[observed[i][1]].name, "failed", DecisionOfCall(i).error>>
            /\ ~launched.some

C5_Witness ==
    /\ Len(observed) >= 2
    /\ DecisionOfCall(Len(observed)).kind = "Err"
    /\ filters[observed[Len(observed)][1]].is_blocking = "default"
    /\ observed[Len(observed)][1] < Len(filters)
    /\ hm = "done"

(***************************************************************************)
(* Properties of the stdio relay of proxy::run_proxy (SpecRelay).          *)
(***************************************************************************)
\* The entries of one direction in the traffic log, in file order, and their
\* contents.
EntriesOf(direction) ==
    LET OfDirection(e) == e.direction = direction
    IN  SelectSeq(trafficLog, OfDirection)

ContentsOf(direction) ==
    [i \in 1..Len(EntriesOf(direction)) |-> EntriesOf(direction)[i].content]

\* The line is JSON and the JSON value has the key.
HasKey(line, key) == IsOk(FromStr(line)) /\ key \in DOMAIN FromStr(line).value

\* The line is a JSON-RPC message that carries this id.
IsRpcWithId(line, id) ==
    LET parsed == FromStr(line)
    IN  /\ IsOk(parsed)
        /\ "jsonrpc" \in DOMAIN parsed.value
        /\ "id" \in DOMAIN parsed.value
        /\ parsed.value.id = id

\* The line is a JSON-RPC message whose id has a pending entry in the map.
Matches(line, map) == \E id \in DOMAIN map : IsRpcWithId(line, id)

\* The ids the lines of the model carry.
IdsOfLines == {FromStr(line).value.id : line \in {l \in Lines : HasKey(l, "id")}}

\* How many responses with this id have been given a duration: those logged
\* with one, and the one the inbound loop is about to log.
TimedResponses(id) ==
    Cardinality({i \in 1..Len(trafficLog) :
                    /\ trafficLog[i].direction = "response"
                    /\ "duration_ms" \in DOMAIN trafficLog[i]
                    /\ IsRpcWithId(trafficLog[i].content, id)})
    + (IF pcOut = "log" /\ durOut.some /\ IsRpcWithId(curOut, id) THEN 1 ELSE 0)

\* How many request lines with this id have been read.
TrackedRequests(id) ==
    Cardinality({i \in 1..Len(readIn) : IsRpcWithId(readIn[i], id)})

\* The inbound loop takes a line: it gets a duration exactly when it matches
\* a pending entry, and the matched entry is gone afterwards.
C6_ProcessStep ==
    Len(readOut') = Len(readOut) + 1 =>
        LET line == readOut'[Len(readOut')]
        IN  /\ durOut'.some <=> Matches(line, timings)
            /\ \A id \in DOMAIN timings :
                  IF IsRpcWithId(line, id)
                  THEN id \notin DOMAIN timings'
                  ELSE id \in DOMAIN timings'

\* An entry is appended to the traffic log: a request entry has no
\* duration_ms, a response entry has one exactly when its line was matched.
C6_LogStep ==
    Len(trafficLog') = Len(trafficLog) + 1 =>
        LET entry == trafficLog'[Len(trafficLog')]
        IN  IF entry.direction = "request"
            THEN "duration_ms" \notin DOMAIN entry
            ELSE /\ entry.content = curOut
                 /\ "duration_ms" \in DOMAIN entry <=> durOut.some

C6_AtMostOnce == \A id \in IdsOfLines : TimedResponses(id) <= TrackedRequests(id)

\* C6: a logged response entry carries duration_ms if and only if its line is
\* JSON with a jsonrpc key and an id that has a pending entry in the
\* correlation map when the line is processed; the match removes the entry,
\* so the responses timed for an id never outnumber the requests read with
\* that id; a response with an unmatched id and every request entry have no
\* duration_ms.
C6_CorrelationMatching == [][C6_ProcessStep /\ C6_LogStep /\ C6_AtMostOnce']_vars

\* A request was tracked, a first response with its id was logged with a
\* duration and a second response with the same id without one.
C6_Witness ==
    /\ \E i \in 1..Len(trafficLog) :
          /\ trafficLog[i].direction = "request"
          /\ HasKey(trafficLog[i].content, "id")
    /\ \E i, j \in 1..Len(trafficLog) :
          /\ i < j
          /\ trafficLog[i].direction = "response"
          /\ trafficLog[j].direction = "response"
          /\ trafficLog[i].content = trafficLog[j].content
          /\ "duration_ms" \in DOMAIN trafficLog[i]
          /\ "duration_ms" \notin DOMAIN trafficLog[j]

\* C7: once the inbound loop has observed EOF on the stdout of the exited
\* child, run returns even if the proxy's stdin stays open and silent: as
\* long as run has not returned, the relay can still take a step.
C7_CancellationOnChildEof ==
    (pcOut = "eof" /\ child = "exited" /\ rpc # "done") => ENABLED <<NextRelay>>_vars

RECURSIVE IsSubSeq(_, _)
\* s is t with some elements left out, the others in order.
IsSubSeq(s, t) ==
    IF s = << >> THEN TRUE
    ELSE IF t = << >> THEN FALSE
    ELSE IF Head(s) = Head(t) THEN IsSubSeq(Tail(s), Tail(t))
    ELSE IsSubSeq(s, Tail(t))

\* s is the beginning of t, short of at most one element.
IsPrefixLessOne(s, t) ==
    /\ Len(t) - 1 <= Len(s)
    /\ Len(s) <= Len(t)
    /\ \A i \in 1..Len(s) : s[i] = t[i]

\* C8 as stated: at the head of each loop, the log entries of the direction
\* and the lines forwarded both equal the lines read so far.
C8_StrictFifoPerDirection ==
    /\ pcIn = "read" => /\ ContentsOf("request") = readIn
                        /\ toChild = readIn
    /\ pcOut = "read" => /\ ContentsOf("response") = readOut
                         /\ toStdout = readOut

\* C8 (amended): at the head of each loop the lines forwarded equal the lines
\* read so far, and in between they lack only the line in hand; the log
\* entries of a direction are the lines read in that direction in order,
\* without exactly those whose log write failed, so they equal the lines
\* read when no log write failed.
C8_FifoUpToLogFailures ==
    /\ pcIn = "read" => toChild = readIn
    /\ pcOut = "read" => toStdout = readOut
    /\ IsPrefixLessOne(toChild, readIn)
    /\ IsPrefixLessOne(toStdout, readOut)
    /\ IsSubSeq(ContentsOf("request"), readIn)
    /\ Len(ContentsOf("request")) + logDrops.request = Len(readIn)
    /\ IsSubSeq(ContentsOf("response"), readOut)
    /\ Len(ContentsOf("response")) + logDrops.response
          = Len(readOut) - (IF pcOut = "log" THEN 1 ELSE 0)

\* Two different lines were read and forwarded in one direction, the log
\* write of the first failed and that of the second did not.
C8_Witness ==
    /\ pcIn = "read"
    /\ Len(readIn) = 2
    /\ readIn[1] # readIn[2]
    /\ toChild = readIn
    /\ ContentsOf("request") = <<readIn[2]>>
    /\ logDrops.request = 1

\* A log write fails: the loop goes on to its next statement with the line
\* in hand, as it does after a log write that worked.
C9_LogFailureStep ==
    /\ logDrops'.request # logDrops.request =>
          /\ pcIn' = "track"
          /\ readIn' = Append(readIn, curIn')
          /\ trafficLog' = trafficLog
    /\ logDrops'.response # logDrops.response =>
          /\ pcOut' = "print"
          /\ curOut' = curOut
          /\ trafficLog' = trafficLog

\* Whatever the log did, every line read has been forwarded when the loop is
\* back at its head, and the result of run is the child's status.
C9_RelayUnaltered ==
    /\ pcIn = "read" => toChild = readIn
    /\ pcOut = "read" => toStdout = readOut
    /\ rpc = "done" /\ waited.some => runResult = RunProxyResult(waited.value)

\* C9: a failure to open or write the traffic log never stops or alters the
\* relay: the line is forwarded as with a working log, and the result of run
\* does not depend on the log.
C9_LogFailureNeverStopsRelay == [][C9_LogFailureStep /\ C9_RelayUnaltered']_vars

\* The log write failed for a request and for a response; both lines were
\* forwarded and run returned the success of the child.
C9_Witness ==
    /\ logDrops.request > 0
    /\ logDrops.response > 0
    /\ trafficLog = << >>
    /\ Len(readIn) > 0
    /\ toChild = readIn
    /\ Len(readOut) > 0
    /\ toStdout = readOut
    /\ rpc = "done"
    /\ IsOk(runResult)

\* C11: if the child cannot be spawned, run returns an error at once and no
\* relay has started: neither loop has left its initial position, no line
\* has been read or forwarded in either direction and the traffic log has
\* no entry (and no attempted write).
C11_SpawnErrorBeforeRelay ==
    child = "none" =>
        /\ \/ rpc \in {"idle", "spawn"} /\ runResult = Running
           \/ rpc = "done" /\ IsErr(runResult)
        /\ pcIn = "notStarted"
        /\ pcOut = "notStarted"
        /\ readIn = << >>
        /\ toChild = << >>
        /\ readOut = << >>
        /\ toStdout = << >>
        /\ trafficLog = << >>
        /\ logDrops = [request |-> 0, response |-> 0]

\* The spawn failed while a line was waiting on the proxy's stdin; run and
\* handle_monitor returned the error.
C11_Witness ==
    /\ child = "none"
    /\ rpc = "done"
    /\ IsErr(runResult)
    /\ stdinLeft > 0
    /\ hm = "done"
    /\ IsErr(hmResult)

(***************************************************************************)
(* Properties of the process supervisor (SpecSupervisor).                  *)
(***************************************************************************)
\* C10: when run has waited for the child and returned, it returned success
\* if and only if the child exited successfully; a failed exit of the child
\* and a failed wait are returned as errors.
C10_ExitStatusPropagated ==
    (rpc = "done" /\ waited.some) =>
        (IsOk(runResult) <=> waited.value = Ok("success"))

(***************************************************************************)
(* Properties of the shared EventSender (SpecBatcher).                     *)
(***************************************************************************)
\* How often an event occurs in a sequence of events.
CountIn(event, events) ==
    Cardinality({i \in 1..Len(events) : events[i] = event})

RECURSIVE Flatten(_)
Flatten(seqs) ==
    IF seqs = << >> THEN << >> ELSE Head(seqs) \o Flatten(Tail(seqs))

\* The batch a call has drained and not yet handed to send_event_batch.
InFlight(c) == IF batchOf[c].some THEN batchOf[c].value ELSE << >>

\* The events of all batches drained from the queue so far: those handed to
\* send_event_batch, batch after batch, then those still held by a call.
EventsInBatches ==
    Flatten([i \in 1..Len(sent) |-> sent[i].events])
        \o InFlight("request") \o InFlight("response")

\* C12: whatever the interleaving of the buffer_event and flush_buffer calls
\* of the two directions, every event handed to buffer_event is either still
\* in the queue and in no batch, or out of the queue and in exactly one
\* batch; and the queue and the batches hold nothing but buffered events.
C12_EachEventInExactlyOneBatch ==
    /\ \A i \in 1..Len(buffered) :
          CountIn(buffered[i], event_buffer) + CountIn(buffered[i], EventsInBatches) = 1
    /\ Len(event_buffer) + Len(EventsInBatches) = Len(buffered)

\* Both directions have buffered, one batch holds events of both, and one
\* direction waits for the queue while the other holds it.
C12_Witness ==
    /\ \E i \in 1..Len(sent) :
          {e.direction : e \in {sent[i].events[k] : k \in 1..Len(sent[i].events)}} = Callers
    /\ \E c \in Callers : pcCall[c] = "lock" /\ bufferGuard \in Callers \ {c}
    /\ Len(buffered) >= 3

\* The step in which the buffer_event call of c pushes its event.
C13_BufferStep(c) ==
    /\ opCall[c] = "buffer_event"
    /\ pcCall[c] = "lock"
    /\ pcCall'[c] # "lock"

C13_PushAndThreshold(c) ==
    LET event  == buffered'[Len(buffered')]
        pushed == Append(event_buffer, event)
    IN  /\ Len(buffered') = Len(buffered) + 1
        /\ IF Len(pushed) = batch_size
           THEN /\ batchOf'[c] = Some(pushed)
                /\ pcCall'[c] = "lockClient"
                /\ event_buffer' = << >>
           ELSE /\ batchOf'[c] = None
                /\ pcCall'[c] = "unlock"
                /\ event_buffer' = pushed
                /\ Len(pushed) < batch_size

\* The step in which the buffer_event call of c returns.
C13_ReturnStep(c) ==
    /\ opCall[c] = "buffer_event"
    /\ pcCall[c] = "unlock"
    /\ pcCall'[c] = "idle"

\* C13: buffer_event pushes the event at the tail of the queue and flushes
\* exactly when the queue then has batch_size events (the whole of them goes
\* into the batch); when a buffer_event call returns, the queue is shorter
\* than batch_size.
C13_FlushExactlyAtBatchSize ==
    [][\A c \in Callers :
          /\ C13_BufferStep(c) => C13_PushAndThreshold(c)
          /\ C13_ReturnStep(c) => Len(event_buffer') < batch_size]_vars

\* A buffer_event call has found one event queued, pushed the second and
\* drained both, with batch_size 2; the other direction's call had pushed
\* without a flush.
C13_Witness ==
    /\ batch_size = 2
    /\ \E c \in Callers :
          /\ opCall[c] = "buffer_event"
          /\ pcCall[c] = "lockClient"
          /\ Len(batchOf[c].value) = 2
          /\ batchOf[c].value[1].direction # c
          /\ batchOf[c].value[2].direction = c

\* C14: a flush drains the whole queue, in the order of buffering, into one
\* batch and hands it to send_event_batch once: the events of the batches
\* sent, then of the batch being sent, then of the queue are the events
\* buffered, in their order, whatever the sends returned.  From the drain to
\* the return of the call the queue is empty, and the call returns after a
\* failed send as after a successful one.
C14_FlushDrainsAndDropsOnFailure ==
    /\ EventsInBatches \o event_buffer = buffered
    /\ \A i \in 1..Len(sent) : sent[i].events # << >>
    /\ \A c \in Callers :
          /\ pcCall[c] \in {"lockClient", "send"} =>
                /\ bufferGuard = c
                /\ batchOf[c].some
                /\ event_buffer = << >>
          /\ pcCall[c] = "unlock" =>
                /\ bufferGuard = c
                /\ batchOf[c] = None
                /\ opCall[c] = "flush_buffer" => event_buffer = << >>

\* A flush_buffer call has drained two events into one batch, its send has
\* failed, and the call is about to return with the queue empty.
C14_Witness ==
    /\ \E c \in Callers : opCall[c] = "flush_buffer" /\ pcCall[c] = "unlock"
    /\ sent # << >>
    /\ sent[Len(sent)].fate = "failed"
    /\ Len(sent[Len(sent)].events) = 2
    /\ batch_size = 3
    /\ event_buffer = << >>

(***************************************************************************)
(* Properties of the credential manager and of the composition of the      *)
(* pipeline (SpecSession).                                                 *)
(***************************************************************************)
\* The token the keyring holds, if its access entry reads as one.
TokenHeld ==
    IF accessEntry.some /\ IsOk(Deserialize(accessEntry.value))
    THEN Some(Deserialize(accessEntry.value).value)
    ELSE None

\* C15: a call that reads from the keyring a token with now + 60 < expires_at
\* (now: the clock at the expiry check) never comes to the exchange endpoint,
\* hence never to save_tokens, and a call that returns without an exchange
\* returns the very token the keyring holds, which it has not written.
C15_CacheHitReturnsCachedToken ==
    /\ (pcAuth = "exchange" /\ ~cur.readFailed /\ TokenHeld.some) =>
          /\ cur.checkedAt.some
          /\ ~(cur.checkedAt.value + 60 < TokenHeld.value.expires_at)
    /\ (cur.exchanges > 0 \/ cur.writes > 0) =>
          /\ pcAuth \in {"save", "done"}
          /\ cur.writes <= cur.exchanges
    /\ (pcAuth = "done" /\ ~cur.initFailed /\ cur.exchanges = 0) =>
          /\ authResult = Ok(TokenHeld)
          /\ TokenHeld.some
          /\ cur.checkedAt.some
          /\ cur.checkedAt.value + 60 < TokenHeld.value.expires_at
          /\ cur.writes = 0

\* handle_monitor is handed, without an exchange, the token an earlier call
\* has got from the exchange endpoint and saved.
C15_Witness ==
    /\ pcAuth = "done"
    /\ authCaller = "handle_monitor"
    /\ cur.exchanges = 0
    /\ cur.writes = 0
    /\ prevCall.exchanges = 1
    /\ authResult.value.some
    /\ authResult.value = prevCall.result
    /\ accessEntry = Some(Serialize(authResult.value.value))
    /\ clock > Clock0

\* C16: with the keyring initialised, a call that finds no token it can use
\* (none, an unreadable one, an expired one) calls the exchange endpoint
\* once; when the exchange succeeds it calls save_tokens once and returns
\* the new token, which the keyring then holds unless the write failed.  The
\* call that comes next, if it can read the keyring while the saved token is
\* not yet expired for is_token_expired, returns that same token without an
\* exchange.
C16_CacheMissExchangesAndSaves ==
    pcAuth = "done" /\ ~cur.initFailed =>
        /\ ~cur.checkedAt.some => cur.exchanges = 1
        /\ cur.exchanges = 0 =>
              cur.checkedAt.value + 60 < TokenHeld.value.expires_at
        /\ cur.exchanges = 1 /\ cur.exchangeFailed =>
              authResult = Ok(None) /\ cur.writes = 0
        /\ cur.exchanges = 1 /\ ~cur.exchangeFailed =>
              /\ authResult = Ok(newToken)
              /\ newToken.some
              /\ newToken.value.token = sessions
              /\ cur.writes = 1
              /\ ~cur.saveFailed => TokenHeld = newToken
        /\ ( /\ prevCall.exchanges = 1
             /\ ~prevCall.exchangeFailed
             /\ ~prevCall.saveFailed
             /\ ~cur.readFailed
             /\ cur.checkedAt.some
             /\ cur.checkedAt.value + 60 < prevCall.result.value.expires_at ) =>
              /\ authResult = Ok(prevCall.result)
              /\ cur.exchanges = 0

\* A direct call has exchanged and saved a token with a refresh token, and
\* the direct call after it, a second later, returns the same token from the
\* keyring.
C16_Witness ==
    /\ pcAuth = "done"
    /\ authCaller = "direct"
    /\ sessions = 2
    /\ prevCall.exchanges = 1
    /\ ~prevCall.saveFailed
    /\ prevCall.result.some
    /\ prevCall.result.value.refresh_token = Some("refresh")
    /\ refreshEntry = Some("refresh")
    /\ cur.exchanges = 0
    /\ cur.checkedAt = Some(Clock0 + 1)
    /\ authResult = Ok(prevCall.result)

\* handle_monitor has called get_jwt_token_with_cache, and the exchange of
\* that call has failed.
ExchangeFailedInMonitor ==
    /\ authCaller = "handle_monitor"
    /\ \/ pcAuth = "done" /\ cur.exchangeFailed
       \/ pcAuth = "idle" /\ prevCall.exchangeFailed

\* C17: when the token exchange fails, get_jwt_token_with_cache returns None;
\* handle_monitor then has no token and tier "free" (whatever the override),
\* its pipeline lets the launch command pass, the command is handed to the
\* spawn unchanged, and handle_monitor returns an error only if run_proxy
\* has returned that error.
C17_AuthFailureNeverFatal ==
    ExchangeFailedInMonitor =>
        /\ pcAuth = "done" => authResult = Ok(None) /\ hm = "auth"
        /\ pcAuth = "idle" =>
              /\ jwt_token = None
              /\ user_tier = "free"
              /\ hm \in {"execute", "executed", "run_proxy", "done"}
              /\ hm = "executed" => execResult = Ok(initialReq)
              /\ hm \in {"run_proxy", "done"} =>
                    launched = Some([program |-> initialReq.command,
                                     args    |-> initialReq.args])
              /\ hm = "done" =>
                    /\ rpc = "done"
                    /\ hmResult = IF IsOk(runResult) THEN Ok("unit") ELSE runResult

\* The exchange has failed in a run with --override-tier enterprise, and the
\* child has been spawned.
C17_Witness ==
    /\ ExchangeFailedInMonitor
    /\ override_tier = Some("enterprise")
    /\ hm = "run_proxy"
    /\ child = "running"

\* C18: a call that cannot initialise or read the keyring goes on to the
\* token exchange as a call that finds no cached token does, and a call
\* whose save fails still returns the token it has got.
C18_StoreFailureActsAsCacheMiss ==
    pcAuth = "done" =>
        /\ (cur.initFailed \/ cur.readFailed) => cur.exchanges = 1
        /\ cur.saveFailed => authResult = Ok(newToken) /\ newToken.some

\* The names of the filters of a pipeline, in order.
NamesOf(fs) == [i \in 1..Len(fs) |-> fs[i].name]

\* handle_monitor has resolved the tier and composed the pipeline.
Composed == hm \in {"execute", "executed", "run_proxy", "done"} /\ user_tier # NoValue

\* C19 as stated: the resolved tier is the override whenever one is given,
\* else the tier claim of the session token when there is a token with that
\* claim, else "free".
C19_TierPrecedence ==
    Composed =>
        user_tier = IF override_tier.some
                    THEN override_tier.value
                    ELSE IF jwt_token.some /\ jwt_token.value.claims.tier.some
                         THEN jwt_token.value.claims.tier.value
                         ELSE "free"

\* C19 as amended: the session token of handle_monitor is the token
\* get_jwt_token_with_cache has returned, or none when it was not called;
\* with a session token the resolved tier is the override when one is
\* given, else the tier claim of the token when present, else "free";
\* without a session token it is "free" whatever the override.
C19_TierPrecedenceWithToken ==
    Composed =>
        /\ jwt_token = IF authCaller = "handle_monitor" THEN prevCall.result ELSE None
        /\ user_tier = IF ~jwt_token.some
                       THEN "free"
                       ELSE IF override_tier.some
                            THEN override_tier.value
                            ELSE IF jwt_token.value.claims.tier.some
                                 THEN jwt_token.value.claims.tier.value
                                 ELSE "free"

\* An override has beaten the tier claim of the session token.
C19_Witness ==
    /\ Composed
    /\ jwt_token.some
    /\ jwt_token.value.claims.tier = Some("pro")
    /\ override_tier = Some("free")
    /\ user_tier = "free"

\* C20: when the resolved tier is "free" or there is no session token, the
\* pipeline is the LocalLogger alone.
C20_FreeTierLocalLoggerOnly ==
    (Composed /\ (user_tier = "free" \/ ~jwt_token.some)) =>
        NamesOf(filters) = <<"LocalLogger">>

\* C21: for a session with a token whose resolved tier is not "free", the
\* pipeline is LocalLogger, EventSender, RiskAnalysis in this order, the
\* RiskAnalysis filter having the threshold 0.8 (80 hundredths).
C21_PaidTierPipeline ==
    (Composed /\ jwt_token.some /\ user_tier # "free") =>
        /\ NamesOf(filters) = <<"LocalLogger", "EventSender", "RiskAnalysis">>
        /\ filters[3].threshold = 80

\* A session whose token claims the tier "pro" has run its pipeline of three
\* filters and spawned the child.
C21_Witness ==
    /\ Composed
    /\ jwt_token.some
    /\ jwt_token.value.claims.tier = Some("pro")
    /\ override_tier = None
    /\ user_tier = "pro"
    /\ Len(filters) = 3
    /\ Len(observed) = 3
    /\ child = "running"

\* C22: in a run of handle_monitor with --local-only,
\* get_jwt_token_with_cache is never called (so neither the keyring nor the
\* exchange endpoint is touched), there is no session token, and the
\* pipeline is the LocalLogger alone, whether the configuration loads or
\* not and whatever --override-tier says.
C22_LocalOnlySkipsAuthentication ==
    local_only =>
        /\ hm \notin {"notCalled", "auth"}
        /\ pcAuth = "idle"
        /\ authCaller # "handle_monitor"
        /\ cur = NoCall
        /\ hm # "skipAuth" =>
              /\ jwt_token = None
              /\ NamesOf(filters) = <<"LocalLogger">>

\* A run with --local-only and --override-tier enterprise, on a machine
\* whose keyring holds a token, has spawned the child.
C22_Witness ==
    /\ local_only
    /\ override_tier = Some("enterprise")
    /\ keyringAvailable
    /\ TokenHeld.some
    /\ NamesOf(filters) = <<"LocalLogger">>
    /\ child = "running"

(***************************************************************************)
(* Properties of the concrete filters (SpecFilters).                       *)
(***************************************************************************)
\* The risk endpoint has answered with a 2xx status and a body that parses.
RiskAnswered(filter) ==
    /\ filter.name = "RiskAnalysis"
    /\ filter.backend.kind = "status"
    /\ filter.backend.status \in 200..299
    /\ "risk_score" \in DOMAIN filter.backend.body

\* The risk endpoint cannot be reached, or answers with another status, or
\* with a body that does not parse.
RiskFailed(filter) ==
    /\ filter.name = "RiskAnalysis"
    /\ \/ filter.backend.kind = "unreachable"
       \/ /\ filter.backend.kind = "status"
          /\ \/ filter.backend.status \notin 200..299
             \/ "risk_score" \notin DOMAIN filter.backend.body

\* The suggestion of a response names a command or arguments.
NamesAPart(response) ==
    /\ response.suggested_transform.some
    /\ \/ response.suggested_transform.value.command.some
       \/ response.suggested_transform.value.args.some

\* The request the claim expects of a suggestion: the named parts replaced,
\* the rest of the request kept.
Suggested(request, response) ==
    [command  |-> IF response.suggested_transform.value.command.some
                  THEN response.suggested_transform.value.command.value
                  ELSE request.command,
     args     |-> IF response.suggested_transform.value.args.some
                  THEN response.suggested_transform.value.args.value
                  ELSE request.args,
     metadata |-> request.metadata]

\* C24: every call of RiskAnalysis.check that the risk service has answered
\* returns Block when the score is greater than the threshold (whatever the
\* suggestion), else Transform with the named parts replaced when the
\* suggestion names a command or arguments, else Allow; execute aborts on
\* the Block and goes on with the transformed (or the same) request
\* otherwise, a score equal to the threshold included.
C24_RiskDecision ==
    \A i \in 1..Len(observed) :
        LET filter   == filters[observed[i][1]]
            request  == observed[i][2]
            response == filter.backend.body
        IN  RiskAnswered(filter) =>
               IF response.risk_score > filter.threshold
               THEN /\ DecisionOfCall(i).kind = "Block"
                    /\ idx = i
                    /\ hm \in {"executed", "done"}
                    /\ IsErr(execResult)
                    /\ launched = None
               ELSE /\ DecisionOfCall(i) =
                          IF NamesAPart(response)
                          THEN Transform(Suggested(request, response))
                          ELSE Allow
                    /\ idx = i + 1
                    /\ ctxRequest = IF NamesAPart(response)
                                    THEN Suggested(request, response)
                                    ELSE request
                    /\ hm # "execute" => execResult = Ok(ctxRequest)

\* With a score equal to the threshold, a suggestion that names only a
\* command has replaced the command of a request with arguments and
\* metadata, and the child has been spawned with the new command and the
\* old arguments.
C24_Witness ==
    /\ Len(filters) = 3
    /\ RiskAnswered(filters[3])
    /\ filters[3].backend.body.risk_score = filters[3].threshold
    /\ filters[3].backend.body.suggested_transform =
          Some([command |-> Some("safe-npx"), args |-> None])
    /\ initialReq = [command |-> "npx", args |-> <<"--transformed">>,
                     metadata |-> {<<"risk", "reviewed">>}]
    /\ execResult = Ok([command |-> "safe-npx", args |-> <<"--transformed">>,
                        metadata |-> {<<"risk", "reviewed">>}])
    /\ launched = Some([program |-> "safe-npx", args |-> <<"--transformed">>])
    /\ child = "running"

\* C25: when the risk endpoint cannot be reached, or answers with a status
\* that is not 2xx or with a body that does not parse, execute goes past
\* the RiskAnalysis filter with the request unchanged, returns Ok, and the
\* command is handed to the spawn; execute returns an error only when the
\* risk service has answered with a score greater than the threshold.
C25_RiskAnalysisFailsOpen ==
    /\ \A i \in 1..Len(observed) :
           RiskFailed(filters[observed[i][1]]) =>
               /\ idx = i + 1
               /\ ctxRequest = observed[i][2]
               /\ hm # "execute" => execResult = Ok(observed[i][2])
               /\ hm \in {"run_proxy", "done"} =>
                     launched = Some([program |-> observed[i][2].command,
                                      args    |-> observed[i][2].args])
    /\ IsErr(execResult) =>
           /\ RiskAnswered(filters[idx])
           /\ filters[idx].backend.body.risk_score > filters[idx].threshold

\* The risk endpoint has answered with a status 500 and the child runs.
C25_Witness ==
    /\ Len(filters) = 3
    /\ filters[3].backend = Status(500, Unparsable)
    /\ Len(observed) = 3
    /\ execResult = Ok(initialReq)
    /\ child = "running"

\* C26: every call of LocalLogger.check and of EventSender.check that
\* returns returns Allow, whatever became of the log write or of the
\* telemetry request, and execute goes on to the next filter with the same
\* request.
C26_LoggerAndSenderAlwaysAllow ==
    \A i \in 1..Len(observed) :
        filters[observed[i][1]].name \in {"LocalLogger", "EventSender"} =>
            /\ DecisionOfCall(i) = Allow
            /\ idx > i
            /\ i < Len(observed) => observed[i + 1][2] = observed[i][2]
            /\ i = Len(observed) => ctxRequest = observed[i][2]

\* The log file could not be opened, the telemetry endpoint has answered
\* 429, and the child runs with the command of the launch.
C26_Witness ==
    /\ Len(filters) = 2
    /\ filters[1].backend = [kind |-> "openFails"]
    /\ filters[2].backend = Status(429, Unparsable)
    /\ Len(observed) = 2
    /\ execResult = Ok(initialReq)
    /\ child = "running"

\* C27: a call of check that execute is waiting for comes to an end: the
\* pipeline is never left waiting for an endpoint that does not answer.
C27_NetworkWaitsAreBounded ==
    (hm = "execute" /\ idx <= Len(filters)) => ENABLED ExecuteCheck

(***************************************************************************)
(* Properties of the correlation map (SpecRelay).                          *)
(***************************************************************************)
\* The request lines with this id that the outbound loop has read and taken
\* through its tracking step, by their position among the lines read.  The
\* clock of the model shows k when the k-th line is read.
TrackedAt(id) ==
    {k \in 1..Len(readIn) :
        /\ IsRpcWithId(readIn[k], id)
        /\ k < Len(readIn) \/ pcIn # "track"}

\* k is the instant of the last of them.
IsLastTracked(id, k) == k \in TrackedAt(id) /\ \A j \in TrackedAt(id) : j <= k

\* Every entry of the map belongs to an id some tracked request carried and
\* holds the instant of the last request with that id.
C28_OneEntryPerId == \A id \in DOMAIN timings : IsLastTracked(id, timings[id])

\* The tracking step of a request: its id has exactly one entry afterwards,
\* with the instant of this request, also when the id was pending before;
\* the other entries are as they were.
C28_TrackStep ==
    (pcIn = "track" /\ pcIn' = "write" /\ TrackedId(curIn).some) =>
        LET id == TrackedId(curIn).value
        IN  /\ DOMAIN timings' = DOMAIN timings \cup {id}
            /\ timings'[id] = now
            /\ \A k \in DOMAIN timings \ {id} : timings'[k] = timings[k]

\* The inbound loop takes a line that matches: the duration is counted from
\* the last tracked request with the id of the line.
C28_ResponseStep ==
    (Len(readOut') = Len(readOut) + 1 /\ durOut'.some) =>
        \E id \in DOMAIN timings :
            /\ IsRpcWithId(readOut'[Len(readOut')], id)
            /\ IsLastTracked(id, now - durOut'.value)

\* C28: the correlation map holds one entry per pending id, the instant of
\* the last request with that id: a request whose id is pending replaces
\* the stored instant, and the next response with that id is timed from
\* that last request.
C28_LastRequestWins == [][C28_TrackStep /\ C28_ResponseStep /\ C28_OneEntryPerId']_vars

\* Two requests with the id 1 have been read before the first response with
\* that id, which is timed from the second.
C28_Witness ==
    /\ readIn = <<"rpc1", "rpc1">>
    /\ pcIn = "read"
    /\ readOut = <<"rpc1">>
    /\ pcOut = "log"
    /\ durOut = Some(0)
    /\ timings = << >>

\* C23: is_token_expired(token) read at the instant now returns true exactly
\* when token.expires_at <= now + 60: true for a token that expires in 59
\* seconds and for one that expires in exactly 60 seconds, false for one that
\* expires in 61 seconds, true for every token that has expired already.
C23_ExpiryBoundary ==
    storeCall.op = "is_token_expired" =>
        LET expires_at == storeCall.token.expires_at
            unixNow    == storeCall.now
            expired    == storeCall.result.value
        IN  /\ expired <=> (expires_at <= unixNow + 60)
            /\ expires_at = unixNow + 59 => expired
            /\ expires_at = unixNow + 60 => expired
            /\ expires_at = unixNow + 61 => ~expired
            /\ expires_at <= unixNow => expired

C23_Witness ==
    /\ storeCall.op = "is_token_expired"
    /\ storeCall.now > Clock0
    /\ storeCall.token.expires_at = storeCall.now + 60
    /\ storeCall.result = Ok(TRUE)

\* C29: clearing is idempotent in both stores. Whatever the store holds, a
\* clear that the keyring (the file system) carries out returns no error, the
\* first one and the one that follows it; after either of them the store holds
\* no token and exists() reports false. A deletion the keyring itself refuses
\* (an error other than NoEntry) is not a case of the claim.
C29_IdempotentClearing ==
    /\ (storeCall.op = "clear_tokens" /\ ~storeCall.storeFailed) => IsOk(storeCall.result)
    /\ (storeCall.op = "clear_cache" /\ ~storeCall.storeFailed) => IsOk(storeCall.result)
    /\ clearsInRow.keyring >= 1 =>
          /\ \A readWorks \in BOOLEAN : ~TokenExists(accessEntry, readWorks)
          /\ storeCall.op = "token_exists" => storeCall.result = Ok(FALSE)
    /\ clearsInRow.file >= 1 =>
          /\ ~CacheExists(cacheFile)
          /\ storeCall.op = "cache_exists" => storeCall.result = Ok(FALSE)

C29_Witness ==
    /\ clearsInRow = [keyring |-> 2, file |-> 2]
    /\ storeCall.op = "clear_tokens"
    /\ storeCall.result = Ok("unit")

\* C30: after a save_tokens that returned Ok the keyring holds exactly what
\* that save was given: the access entry is its access token and the refresh
\* entry is its refresh token, with no refresh entry when it was given none
\* (an empty refresh token may be kept or dropped).
C30_ReplacedWholesale ==
    (storeCall.op = "save_tokens" /\ IsOk(storeCall.result)) =>
        /\ accessEntry = Some(Serialize(storeCall.token))
        /\ CASE storeCall.refresh_token = None -> refreshEntry = None
             [] storeCall.refresh_token = Some("") -> refreshEntry \in {None, Some("")}
             [] OTHER -> refreshEntry = storeCall.refresh_token

\* The keys of a line of the traffic log (the timestamp is left out of the
\* lines of both files).
TrafficKeys(line) ==
    /\ {"direction", "content"} \subseteq DOMAIN line
    /\ DOMAIN line \subseteq {"direction", "content", "duration_ms"}

\* C31: in every mode the file the LocalLogger of the pipeline appends to is
\* another file than the traffic log handed to the relay, so every line of
\* the traffic log has the fields direction and content, an optional
\* duration_ms, and no other.
C31_MetadataLogIsSeparate ==
    /\ Composed =>
          \A i \in 1..Len(filters) :
              filters[i].name = "LocalLogger" => filters[i].log_path # LogFile
    /\ \A i \in 1..Len(trafficLog) : TrafficKeys(trafficLog[i])

\* The events a relay direction has handed to buffer_event, in order: those
\* of the batches taken from its queue, then the batch being sent, then the
\* queue.
HandedToBatcher(direction) ==
    Flatten([i \in 1..Len(batches[direction]) |-> batches[direction][i].events])
        \o (IF direction = "request"
            THEN (IF sendIn.some THEN sendIn.value ELSE << >>) \o evBufIn
            ELSE (IF sendOut.some THEN sendOut.value ELSE << >>) \o evBufOut)

\* One event per line of a direction: the k-th line forwarded has the k-th
\* event handed to the batcher, with the direction and the line as payload,
\* and there are no more events than lines read.
OneEventPerLine(direction, forwarded, read) ==
    LET handed == HandedToBatcher(direction)
    IN  /\ Len(handed) <= Len(read)
        /\ \A k \in 1..Len(forwarded) :
              /\ k <= Len(handed)
              /\ handed[k].direction = direction
              /\ handed[k].payload = forwarded[k]

\* C32: for every line relayed, to the child or to the proxy's stdout,
\* JSON-RPC or not, exactly one event with the direction of the line and the
\* line as its payload has been handed to the event batcher.
C32_TelemetryPerRelayedLine ==
    /\ OneEventPerLine("request", toChild, readIn)
    /\ OneEventPerLine("response", toStdout, readOut)

\* No line with this id has been processed by the inbound loop since the
\* outbound loop inserted the k-th line it read.
NotAnsweredSince(id, k) == id \notin DOMAIN answered \/ answered[id] < k

\* The outbound loop writes a tracked line to the child: it is the last line
\* read, and its entry, made at the instant Len(readIn), is in the map unless
\* a line with its id has been processed since the insert.
C33_InsertBeforeWrite ==
    (pcIn = "write" /\ toChild' = Append(toChild, curIn) /\ TrackedId(curIn).some) =>
        LET id == TrackedId(curIn).value
        IN  NotAnsweredSince(id, Len(readIn)) =>
                /\ id \in DOMAIN timings
                /\ timings[id] = Len(readIn)

\* The inbound loop processes a line with an id that a request written to
\* the child carries, and no line with this id was processed since the
\* insert of that request: the entry is present, it is the entry of that
\* request or of a later one, and the line is timed from it.
C33_ResponseAfterRequestIsTimed ==
    (Len(readOut') = Len(readOut) + 1 /\ TrackedId(readOut'[Len(readOut')]).some) =>
        LET id == TrackedId(readOut'[Len(readOut')]).value
        IN  \A k \in 1..Len(toChild) :
                (TrackedId(toChild[k]) = Some(id) /\ NotAnsweredSince(id, k)) =>
                    /\ id \in DOMAIN timings
                    /\ timings[id] >= k
                    /\ durOut' = Some(now - timings[id])
                    /\ id \notin DOMAIN timings'

\* C33: the outbound loop inserts the correlation entry of a request before
\* it writes the request to the child; hence, in every interleaving of the
\* two loops, a response read after the child has received a request with
\* its id, with no other line of that id processed in between, finds the
\* pending entry and is timed.
C33_EntryBeforeForwarding ==
    [][C33_InsertBeforeWrite /\ C33_ResponseAfterRequestIsTimed]_vars

\* A line with the id 1 was processed before the request with the id 1 was
\* inserted, the request has been written to the child, and the next line
\* with the id 1 has been timed.
C33_Witness ==
    /\ toChild = <<"rpc1">>
    /\ readOut = <<"rpc1", "rpc1">>
    /\ pcOut = "log"
    /\ durOut.some
    /\ answered = (1 :> 1)

\* How many calls of log_mcp_traffic a direction has made: those that left
\* an entry and those whose write failed.
LogCallsMade(direction) == Len(EntriesOf(direction)) + logDrops[direction]

\* A line is written to the child: its log call has been made, and while no
\* log write of a request has failed its entry is in the log.
C34_LoggedBeforeWrite ==
    Len(toChild') = Len(toChild) + 1 =>
        /\ LogCallsMade("request") >= Len(toChild')
        /\ logDrops["request"] = 0 =>
              EntriesOf("request")[Len(toChild')].content = toChild'[Len(toChild')]

\* The entry of a response is put at the end of the log, after the entries
\* of all requests the child has received by then.
C34_ResponseEntryGoesLast ==
    (pcOut = "log" /\ pcOut' = "print" /\ Len(trafficLog') > Len(trafficLog)) =>
        /\ trafficLog' = Append(trafficLog, LogEntryJson("response", curOut, durOut))
        /\ LogCallsMade("request") >= Len(toChild)

\* C34: a request is appended to the traffic log before it is written to the
\* child; therefore the log entry of a request precedes the entry of every
\* response the child wrote after it had received the request (an entry
\* whose write failed is in the log at no place).
C34_LogBeforeForward ==
    [][C34_LoggedBeforeWrite /\ C34_ResponseEntryGoesLast]_vars

\* The request was logged and written to the child, and the response to it,
\* read after that, has been logged behind it.
C34_Witness ==
    /\ toChild = <<"rpc1">>
    /\ Len(trafficLog) = 2
    /\ trafficLog[1] = LogEntryJson("request", "rpc1", None)
    /\ trafficLog[2].direction = "response"
    /\ trafficLog[2].content = "rpc1"
    /\ "duration_ms" \in DOMAIN trafficLog[2]

\* The line is not valid JSON, is a JSON value without a jsonrpc key, or is a
\* JSON-RPC line without an id key.
CarriesNoId(line) ==
    \/ ~IsOk(FromStr(line))
    \/ ~HasKey(line, "jsonrpc")
    \/ ~HasKey(line, "id")

\* The outbound loop takes a line without an id through its three steps: the
\* log call is made, the map is left alone, the line is written to the child.
C35_OutboundUntouched ==
    /\ (Len(readIn') = Len(readIn) + 1 /\ CarriesNoId(curIn')) =>
          /\ timings' = timings
          /\ LogCallsMade("request")' = LogCallsMade("request") + 1
          /\ trafficLog' # trafficLog =>
                trafficLog' = Append(trafficLog, LogEntryJson("request", curIn', None))
    /\ (pcIn = "track" /\ pcIn' # "track" /\ CarriesNoId(curIn)) =>
          /\ timings' = timings
          /\ pcIn' = "write"
          /\ curIn' = curIn
    /\ (pcIn = "write" /\ pcIn' # "write" /\ CarriesNoId(curIn)) =>
          /\ timings' = timings
          /\ child = "running" => toChild' = Append(toChild, curIn)

\* The inbound loop does the same with a line of the child: no duration, the
\* map left alone, the log call made, the line printed.
C35_InboundUntouched ==
    /\ (Len(readOut') = Len(readOut) + 1 /\ CarriesNoId(curOut')) =>
          /\ timings' = timings
          /\ durOut' = None
          /\ pcOut' = "log"
    /\ (pcOut = "log" /\ pcOut' # "log" /\ CarriesNoId(curOut)) =>
          /\ timings' = timings
          /\ LogCallsMade("response")' = LogCallsMade("response") + 1
          /\ trafficLog' # trafficLog =>
                trafficLog' = Append(trafficLog, LogEntryJson("response", curOut, None))
          /\ pcOut' = "print"
    /\ (pcOut = "print" /\ pcOut' # "print" /\ CarriesNoId(curOut)) =>
          /\ timings' = timings
          /\ pcOut' = "read" => toStdout' = Append(toStdout, curOut)

\* The map changes only in the insert of the outbound loop and in the match
\* of the inbound loop, on a JSON-RPC line with an id.
C35_OnlyIdsTouchTheMap ==
    timings' # timings =>
        \/ pcIn = "track" /\ pcIn' = "write" /\ ~CarriesNoId(curIn)
        \/ Len(readOut') = Len(readOut) + 1 /\ ~CarriesNoId(curOut')

\* C35: only JSON-RPC lines with an id touch the correlation map: a line that
\* is not valid JSON, a JSON value without a jsonrpc key and a JSON-RPC line
\* without an id leave the map unchanged in both directions, and are logged
\* and forwarded like any other line.
C35_OnlyLinesWithIdTouchTheMap ==
    [][C35_OutboundUntouched /\ C35_InboundUntouched /\ C35_OnlyIdsTouchTheMap]_vars

\* After a request with id 1, the outbound loop has relayed an object
\* without a jsonrpc key and the inbound loop a notification; both are in the
\* log and the entry of the request is still in the map.
C35_Witness ==
    /\ toChild = <<"rpc1", "obj1">>
    /\ toStdout = <<"note">>
    /\ timings = (1 :> 1)
    /\ Len(trafficLog) = 3
    /\ [direction |-> "request", content |-> "obj1"] = trafficLog[2]
    /\ [direction |-> "response", content |-> "note"] = trafficLog[3]

\* The ids of the requests the outbound loop has inserted and that no line
\* of the child carrying the same id has followed.
PendingIds ==
    {FromStr(readIn[k]).value.id :
        k \in {j \in 1..Inserted :
                 /\ ~CarriesNoId(readIn[j])
                 /\ NotAnsweredSince(FromStr(readIn[j]).value.id, j)}}

\* At any time, up to and after the return of run, the keys of the map are
\* the ids of the inserted requests not yet followed by their response.
C36_KeysArePending == impl = "run_proxy" => DOMAIN timings = PendingIds

\* An entry leaves the map only in the step of the inbound loop that reads a
\* JSON-RPC line carrying the id of that entry, and no other entry leaves
\* with it.
C36_RemovedOnlyByResponse ==
    \A id \in DOMAIN timings :
        id \notin DOMAIN timings' =>
            /\ Len(readOut') = Len(readOut) + 1
            /\ IsRpcWithId(curOut', id)
            /\ DOMAIN timings' = DOMAIN timings \ {id}

\* C36: no eviction of pending correlations: an entry of the correlation map
\* is removed only by a response carrying the same id, and the entry of a
\* request whose response never arrives stays until run returns; the key set
\* is at any time the set of ids of the requests observed (inserted) and not
\* yet followed by a matched response.
C36_NoEviction == []C36_KeysArePending /\ [][C36_RemovedOnlyByResponse]_vars

\* run has returned: the response to request 1 took its entry out of the
\* map, request 2 was never answered and its entry is still there.
C36_Witness ==
    /\ rpc = "done"
    /\ readIn = <<"rpc1", "rpc2">>
    /\ readOut = <<"rpc1">>
    /\ toStdout = <<"rpc1">>
    /\ DOMAIN timings = {2}
    /\ answered = (1 :> 1)

\* run has returned what the match on child.wait() makes of the status.
ReturnedChildStatus ==
    /\ rpc = "done"
    /\ waited.some
    /\ runResult = RunProxyResult(waited.value)
    /\ child = "exited"
    /\ pcIn \in Ended
    /\ pcOut \in Ended

\* An outbound loop that has ended has dropped the write end of the child's
\* stdin.
C37_EndClosesChildStdin == (impl = "run_proxy" /\ pcIn \in Ended) => ~childStdin

\* C37: normal termination of the relay: when the outbound loop ends (EOF on
\* the proxy's stdin or a write failure) the child's stdin is closed; with a
\* child that exits on EOF of its stdin, the inbound loop reaches the end of
\* the child's stdout, both loops end and run eventually returns the child's
\* status.
C37_NormalTermination ==
    /\ []C37_EndClosesChildStdin
    /\ (impl = "run_proxy" /\ pcIn \in Ended) ~> ReturnedChildStatus

\* The outbound loop ended at EOF of the proxy's stdin after relaying a
\* request, the inbound loop at EOF of the child's stdout after relaying the
\* response, and run returned the child's status.
C37_Witness ==
    /\ ReturnedChildStatus
    /\ pcIn = "eof"
    /\ pcOut = "eof"
    /\ toChild = <<"rpc1">>
    /\ toStdout = <<"rpc1">>
    /\ runResult = Ok("unit")

SessionTierOf(token, override) ==
    IF override.some THEN override.value
    ELSE IF token.claims.tier.some THEN token.claims.tier.value
    ELSE "free"

\* save_tokens has failed after a successful exchange: the call returns the
\* token of the exchange.
C39_ReturnsNewToken ==
    (pcAuth = "save" /\ pcAuth' = "done" /\ cur'.saveFailed) =>
        /\ newToken.some
        /\ authResult' = Ok(newToken)

\* handle_monitor goes on with that token: the session holds it, takes its
\* tier from it and runs the pipeline of an authenticated session.
C39_SessionAuthenticated ==
    (hm = "auth" /\ hm' = "execute" /\ cur.saveFailed) =>
        /\ newToken.some
        /\ jwt_token' = newToken
        /\ user_tier' = SessionTierOf(newToken.value, override_tier')
        /\ override_tier' = None =>
              user_tier' = (IF newToken.value.claims.tier.some
                            THEN newToken.value.claims.tier.value
                            ELSE "free")
        /\ "EventSender" \in {filters'[i].name : i \in 1..Len(filters')}
        /\ \A i \in 1..Len(filters') :
              filters'[i].name = "LocalLogger" => filters'[i].log_path = LogFile

\* C39: a failed save never discards a fresh token: when the exchange
\* succeeds and saving the new token to the secret store fails,
\* get_jwt_token_with_cache still returns the new token, and the session runs
\* authenticated with the tier of that token (an --override-tier replaces the
\* tier of any token).
C39_FailedSaveKeepsToken == [][C39_ReturnsNewToken /\ C39_SessionAuthenticated]_vars

\* A session whose save failed runs the paid pipeline with the token of the
\* exchange, while the keyring holds no access token.
C39_Witness ==
    /\ hm = "execute"
    /\ prevCall.saveFailed
    /\ prevCall.exchanges = 1
    /\ prevCall.result = jwt_token
    /\ jwt_token.some
    /\ jwt_token.value.claims.tier = Some("pro")
    /\ override_tier = None
    /\ user_tier = "pro"
    /\ accessEntry = None
    /\ Len(filters) = 3

====
